---- MODULE Spec2Model ----
(***************************************************************************)
(* A model of BrowserMsg, the cross-context message bus of the FlowCrypt    *)
(* browser extension (src/unnamed/part_000, browser-msg.ts).                *)
(*                                                                         *)
(* Contexts: the background page "bg" and a window hierarchy of generic     *)
(* contexts top > A > B > {S, Sib}.  "top" is the content script of the     *)
(* https://mail.google.com page, the frames below it are pages of the       *)
(* extension origin.  The generic contexts of "listening" have called       *)
(* BrowserMsg.listen(<their own id>), the background page BrowserMsg.bgListen.*)
(*                                                                         *)
(* One action is one task of a context's event loop: everything the code    *)
(* does between two suspension points (an awaited encrypt, decrypt or       *)
(* objUrlConsume, an asynchronous handler, a message in flight).            *)
(***************************************************************************)
EXTENDS Integers, Sequences, FiniteSets, TLC

\* ------------------------------------------------------------- bounds
MaxMsgs == 1        \* envelopes sent in one behaviour (SymmetricMessageEncryption.generateIV results)
MaxDup == 1         \* deliveries the direct channel duplicates in one behaviour
MaxBufLen == 1      \* length of a binary field's content
MaxRegs == 2        \* calls of addListener / bgAddListener in one behaviour
MaxCalls == 2       \* awaited calls one context has outstanding at the same time

\* ------------------------------------------------------------- contexts
Frames == {"top", "A", "B", "S", "Sib"}
Bg == "bg"
Contexts == Frames \cup {Bg}

\* window.parent of every window; the top window is its own parent
Parent == [f \in Frames |->
             CASE f = "top" -> "top"
               [] f = "A" -> "top"
               [] f = "B" -> "A"
               [] f = "S" -> "B"
               [] f = "Sib" -> "B"]

MailOrigin == "https://mail.google.com"
ExtensionOrigin == "chrome-extension://flowcrypt"
OtherOrigin == "https://other.example"

\* e.origin of a message posted by window f
Origin == [f \in Frames |-> IF f = "top" THEN MailOrigin ELSE ExtensionOrigin]

\* document.querySelectorAll('iframe') of f, filtered to the extension origin
ChildFramesWithExtensionOrigin(f) ==
  {c \in Frames : c # f /\ Parent[c] = f /\ Origin[c] = ExtensionOrigin}

\* contexts whose chrome.runtime.onMessage listeners a chrome.runtime.sendMessage
\* of context c reaches: every extension page and frame but the sender's own
\* (a content script is reached by chrome.tabs.sendMessage only)
RuntimeReach(c) == {x \in Contexts : x # c /\ (x = Bg \/ Origin[x] = ExtensionOrigin)}

UIDs == 1 .. (IF MaxCalls > MaxMsgs THEN MaxCalls ELSE MaxMsgs)

\* ------------------------------------------------------------- payloads
Fields == {"f1", "f2"}
Bytes == {0, 1}
Bufs == UNION {[1 .. n -> Bytes] : n \in 0 .. MaxBufLen}

\* a top-level field holds a Uint8Array ("buf"), an object that nests one
\* ("nested"), another value ("val") or undefined ("undef")
Undef == [k |-> "undef", b |-> <<>>]
Val == [k |-> "val", b |-> <<>>]
Buf(b) == [k |-> "buf", b |-> b]
Nested(b) == [k |-> "nested", b |-> b]
FieldVals == {Undef, Val} \cup {Buf(b) : b \in Bufs} \cup {Nested(b) : b \in Bufs}
Objects == [Fields -> FieldVals]

\* objUrls: a Dict from field names to object URLs; {} has no keys
NoObjUrls == [f \in {} |-> 1]

\* ------------------------------------------------------------- blob store
\* Browser.objUrlCreate / Browser.objUrlConsume: a handle is the index of its
\* entry; consuming returns the bytes and invalidates the handle, consuming an
\* invalidated handle fails.
objUrlCreate(store, bytes) == Append(store, [bytes |-> bytes, live |-> TRUE, readers |-> <<>>])
\* store[url].readers: the contexts that called objUrlConsume(url), in order;
\* the first of them got the bytes
objUrlConsumable(store, url) == url \in 1 .. Len(store) /\ store[url].live
objUrlConsume(store, url, ctx) ==
  IF url \in 1 .. Len(store)
  THEN [store EXCEPT ![url].live = FALSE, ![url].readers = Append(@, ctx)]
  ELSE store

\* ------------------------------------------------------------- values
\* a request or response value: undefined, a non-object value, or an object
EmptyObj == [f \in Fields |-> Undef]
UndefinedValue == [t |-> "undefined", o |-> EmptyObj]
ScalarValue == [t |-> "scalar", o |-> EmptyObj]
Obj(o) == [t |-> "object", o |-> o]

FieldOrder == <<"f1", "f2">>     \* Object.keys order

\* replaceBufWithObjUrlInplace over the keys ks, threading the store:
\* a Uint8Array field becomes undefined and gets a fresh object URL
RECURSIVE ReplaceBufFields(_, _, _, _)
ReplaceBufFields(ks, o, urls, store) ==
  IF ks = <<>> THEN [o |-> o, objUrls |-> urls, store |-> store]
  ELSE LET f == Head(ks) IN
       IF o[f].k = "buf"
       THEN ReplaceBufFields(Tail(ks), [o EXCEPT ![f] = Undef],
                             (f :> (Len(store) + 1)) @@ urls,
                             objUrlCreate(store, o[f].b))
       ELSE ReplaceBufFields(Tail(ks), o, urls, store)

\* an encoding that records the object URLs but leaves the buffers in the payload
replaceBufWithObjUrlCopy(v, store) ==
  IF v.t = "object"
  THEN LET r == ReplaceBufFields(FieldOrder, v.o, NoObjUrls, store)
       IN [v |-> v, objUrls |-> r.objUrls, store |-> r.store]
  ELSE [v |-> v, objUrls |-> NoObjUrls, store |-> store]

replaceBufWithObjUrlInplace(v, store) ==
  IF v.t = "object"
  THEN LET r == ReplaceBufFields(FieldOrder, v.o, NoObjUrls, store)
       IN [v |-> Obj(r.o), objUrls |-> r.objUrls, store |-> r.store]
  ELSE [v |-> v, objUrls |-> NoObjUrls, store |-> store]

\* Object.keys(objUrls), in key order
RECURSIVE UrlKeys(_, _)
UrlKeys(ks, urls) ==
  IF ks = <<>> THEN <<>>
  ELSE IF Head(ks) \in DOMAIN urls THEN <<Head(ks)>> \o UrlKeys(Tail(ks), urls)
       ELSE UrlKeys(Tail(ks), urls)

\* the keys replaceObjUrlWithBuf will await objUrlConsume for
ConsumableKeys(v, urls) == IF v.t = "object" THEN UrlKeys(FieldOrder, urls) ELSE <<>>

\* the consumed bytes stored under the first key of the payload instead of
\* under the key of the object URL
ReplaceObjUrlFirstField(o, f, store, url) == [o EXCEPT ![FieldOrder[1]] = Buf(store[url].bytes)]

\* one iteration of the loop of replaceObjUrlWithBuf, objUrlConsume succeeding
ReplaceObjUrlField(o, f, store, url) == [o EXCEPT ![f] = Buf(store[url].bytes)]

\* ------------------------------------------------------------- errors
NoErr == [ctor |-> "none", message |-> <<>>, status |-> 0, url |-> "", responseText |-> "", statusText |-> ""]
PlainErr(m) == [NoErr EXCEPT !.ctor = "Error", !.message = m]
\* new AjaxErr(message, stack, status, url, responseText, statusText, ..)
AjaxErr(m, status, url, responseText, statusText) ==
  [ctor |-> "AjaxErr", message |-> m, status |-> status, url |-> url,
   responseText |-> responseText, statusText |-> statusText]
BgNotReadyErr(m) == [NoErr EXCEPT !.ctor = "BgNotReadyErr", !.message = m]

NoException ==
  [errorConstructor |-> "undefined", message |-> <<>>, status |-> 0, url |-> "",
   responseText |-> "", statusText |-> ""]

\* an errToJson that keeps the message only
errToJsonStandard(e) == [NoException EXCEPT !.errorConstructor = "Error", !.message = e.message]

errToJson(e) ==
  IF e.ctor = "AjaxErr"
  THEN [errorConstructor |-> "AjaxErr", message |-> e.message, status |-> e.status, url |-> e.url,
        responseText |-> e.responseText, statusText |-> e.statusText]
  ELSE [NoException EXCEPT !.errorConstructor = "Error", !.message = e.message]

jsonToErr(j, name) ==
  IF j.errorConstructor = "AjaxErr"
  THEN AjaxErr(<<"BrowserMsg(", name, ") ">> \o j.message, j.status, j.url, j.responseText, j.statusText)
  ELSE PlainErr(<<"BrowserMsg(", name, ") ">> \o j.message)

\* ------------------------------------------------------------- handlers
Names == {"ping", "other"}
Undefined == "undefined"

\* the handlers a registry may hold, by what they do with a request
HandlerIds == {"respondObj", "respondBuf", "respondScalar", "responseless", "throwErr", "throwAjax", "throwAjaxOffline"}

PongObj == [f \in Fields |-> IF f = "f1" THEN Val ELSE Undef]
ChunkObj == [f \in Fields |-> IF f = "f1" THEN Buf([i \in 1 .. MaxBufLen |-> 1]) ELSE Val]

\* the promise a handler returns: resolved with res, or rejected with err
Behaviour(h) ==
  CASE h = "respondObj" -> [ok |-> TRUE, res |-> Obj(PongObj), err |-> NoErr]
    [] h = "respondBuf" -> [ok |-> TRUE, res |-> Obj(ChunkObj), err |-> NoErr]
    [] h = "respondScalar" -> [ok |-> TRUE, res |-> ScalarValue, err |-> NoErr]
    [] h = "responseless" -> [ok |-> TRUE, res |-> UndefinedValue, err |-> NoErr]
    [] h = "throwErr" -> [ok |-> FALSE, res |-> UndefinedValue, err |-> PlainErr(<<"boom">>)]
    [] h = "throwAjax" -> [ok |-> FALSE, res |-> UndefinedValue,
                           err |-> AjaxErr(<<"not found">>, 404, "https://fes/api", "not found", "Not Found")]
    [] h = "throwAjaxOffline" -> [ok |-> FALSE, res |-> UndefinedValue,
                                  err |-> AjaxErr(<<"offline">>, 0, "https://fes/api", "", "error")]

\* ------------------------------------------------------------- state
VARIABLES
  msgs,                           \* the envelopes sent so far; an envelope's uid is its index
  blobStore,                      \* the object URLs created so far
  HANDLERS_REGISTERED_FRAME,      \* per generic context: name -> handler
  HANDLERS_REGISTERED_BACKGROUND, \* of the background page: name -> handler
  listening,                      \* the contexts that have called BrowserMsg.listen / bgListen
  processed,                      \* per context: BrowserMsg.processed
  encrypting,                     \* uids whose sender awaits SymmetricMessageEncryption.encrypt
  direct,                         \* per context: chrome.runtime.onMessage events not yet run
  winq,                           \* per frame: window 'message' events not yet run
  decrypting,                     \* per frame: window listeners awaiting decrypt
  tasks,                          \* handler tasks: awaiting objUrlConsume, or the handler's promise
  port,                           \* per uid: the reply side of chrome.runtime.sendMessage
  promise,                        \* per uid: the promise sendRaw returned
  hist,                           \* what happened, for the properties
  apiCall                         \* a call of GoogleOAuth under way: its inputs and results

vars == <<msgs, blobStore, HANDLERS_REGISTERED_FRAME, HANDLERS_REGISTERED_BACKGROUND,
          listening, processed, encrypting, direct, winq, decrypting, tasks, port, promise, hist, apiCall>>

\* bags as functions element -> count > 0
EmptyBag == [x \in {} |-> 1]
BagPut(b, e, n) ==
  IF n = 0 THEN b
  ELSE IF e \in DOMAIN b THEN [b EXCEPT ![e] = @ + n] ELSE (e :> n) @@ b
BagTake(b, e) ==
  IF b[e] = 1 THEN [x \in DOMAIN b \ {e} |-> b[x]] ELSE [b EXCEPT ![e] = @ - 1]
BagCount(b, e) == IF e \in DOMAIN b THEN b[e] ELSE 0
RECURSIVE BagSize(_)
BagSize(b) ==
  IF DOMAIN b = {} THEN 0
  ELSE LET e == CHOOSE x \in DOMAIN b : TRUE
       IN b[e] + BagSize([x \in DOMAIN b \ {e} |-> b[x]])

NoReply == [result |-> UndefinedValue, exception |-> NoException, objUrls |-> NoObjUrls, set |-> FALSE]
Pending == [state |-> "pending", value |-> UndefinedValue, err |-> NoErr]
NoPromise == [state |-> "none", value |-> UndefinedValue, err |-> NoErr]

NoHist == [invoked |-> [c \in Contexts |-> [u \in UIDs |-> 0]],
           received |-> [c \in Contexts |-> [u \in UIDs |-> EmptyObj]],
           forwarded |-> [c \in Frames |-> [u \in UIDs |-> 0]],
           fwdPosts |-> [c \in Frames |-> [u \in UIDs |-> 0]],
           posted |-> [u \in UIDs |-> 0],
           sentTo |-> [u \in UIDs |-> [f \in Frames |-> 0]],
           respondCalls |-> [c \in Contexts |-> [u \in UIDs |-> 0]],
           responses |-> {},
           reported |-> [u \in UIDs |-> NoErr],
           escaped |-> [u \in UIDs |-> FALSE],
           sentBm |-> [u \in UIDs |-> EmptyObj],
           delivered |-> [c \in Contexts |-> [u \in UIDs |-> 0]],
           dups |-> 0,
           untrusted |-> [f \in Frames |-> 0],
           calls |-> MaxMsgs,
           registered |-> <<>>]

NoHandlers == [n \in Names |-> Undefined]

\* No call of GoogleOAuth is under way.
NoCall == [stage |-> "none"]

TransportIdle ==
  /\ msgs = <<>>
  /\ blobStore = <<>>
  /\ processed = [c \in Contexts |-> {}]
  /\ encrypting = {}
  /\ direct = [c \in Contexts |-> [u \in UIDs |-> 0]]
  /\ winq = [f \in Frames |-> EmptyBag]
  /\ decrypting = [f \in Frames |-> EmptyBag]
  /\ tasks = EmptyBag
  /\ port = [u \in UIDs |-> [keep |-> 0, reply |-> NoReply, called |-> FALSE, lastError |-> "", ran |-> FALSE, runtime |-> "ok", open |-> TRUE, tabs |-> {}, tabsDone |-> {}]]
  /\ promise = [u \in UIDs |-> NoPromise]

InitTransport == TransportIdle /\ hist = NoHist

InitCommon == InitTransport /\ apiCall = NoCall

\* ------------------------------------------------------------- sending
Null == "null"
Broadcast == "broadcast"

\* number of iterations of the loop of sendUpParentLine started in window f:
\* one per ancestor of f
RECURSIVE UpCount(_)
\* a loop that posts before it tests: one post too many at every level
UpCountDoWhile(w) == IF Parent[w] # w THEN 1 + UpCount(Parent[w]) ELSE 1
UpCount(w) == IF Parent[w] # w THEN 1 + UpCount(Parent[w]) ELSE 0

\* w.postMessage(m, ..) called n times: n 'message' events for the listener of
\* window w, when w has one
postMessage(q, w, m, n) ==
  IF w \in listening THEN [q EXCEPT ![w] = BagPut(@, m, n)] ELSE q

\* posting to the window itself instead of its parent
sendUpParentLineToSelf(f) == f

\* SymmetricMessageEncryption.encrypt(msg) for envelope uid: uid and to stay
\* readable, everything else of the envelope becomes the ciphertext
Ciphertext(inner) == [k |-> "ciphertext", of |-> inner]
Cleartext(inner) == [k |-> "cleartext", of |-> inner]
encrypt(uid) ==
  [uid |-> uid, to |-> msgs[uid].to,
   data |-> Ciphertext([name |-> msgs[uid].name, bm |-> msgs[uid].bm, objUrls |-> msgs[uid].objUrls,
                        responseName |-> msgs[uid].responseName])]

\* the 'message' event a window gets when window f posts the encrypted message em
MessageEvent(em, f, flag) ==
  [uid |-> em.uid, propagateToParent |-> flag, origin |-> Origin[f], to |-> em.to, data |-> em.data]

\* sendUpParentLine in window f: every iteration posts to window.parent
sendUpParentLineTarget(f) == Parent[f]
sendUpParentLine(q, f, encryptedMsg) ==
  postMessage(q, sendUpParentLineTarget(f), MessageEvent(encryptedMsg, f, TRUE), UpCount(f))

\* sendToChildren in window f
RECURSIVE PostToAll(_, _, _)
PostToAll(q, targets, m) ==
  IF targets = {} THEN q
  ELSE LET c == CHOOSE x \in targets : TRUE
       IN PostToAll(postMessage(q, c, m, 1), targets \ {c}, m)
sendToChildren(q, f, encryptedMsg) ==
  PostToAll(q, ChildFramesWithExtensionOrigin(f), MessageEvent(encryptedMsg, f, FALSE))

\* posting the envelope as it is, before encrypt
postToSelfUnencrypted(q, f, encryptedMsg) ==
  postMessage(q, f, MessageEvent([encryptedMsg EXCEPT !.data = Cleartext(@.of)], f, FALSE), 1)

\* window.postMessage(encryptedMsg, '*') in window f
postToSelf(q, f, encryptedMsg) ==
  postMessage(q, f, MessageEvent(encryptedMsg, f, FALSE), 1)

\* the windows the sender's task posts to, with the number of postMessage
\* calls each of them gets: sendToChildren, window.postMessage and
\* sendUpParentLine for sendRaw, sendUpParentLine alone for sendToParentWindow
PostTargets(channel, c) ==
  [f \in Frames |->
     (IF channel = "sendRaw" /\ f \in ChildFramesWithExtensionOrigin(c) THEN 1 ELSE 0)
     + (IF channel = "sendRaw" /\ f = c THEN 1 ELSE 0)
     + (IF f = sendUpParentLineTarget(c) THEN UpCount(c) ELSE 0)]

\* sendRaw called in generic context c: the envelope, the window task awaiting
\* encrypt (when msg.to is not null) and chrome.runtime.sendMessage
sendRaw(c, destString, name, bm, objUrls, awaitRes, responseName, messageSender) ==
  LET uid == Len(msgs) + 1
      to == IF destString = Undefined THEN Null ELSE destString
  IN /\ Len(msgs) < hist.calls
     /\ msgs' = Append(msgs, [name |-> name, bm |-> bm, objUrls |-> objUrls, to |-> to,
                              sender |-> c, awaitRes |-> awaitRes, responseName |-> responseName,
                              messageSender |-> messageSender, channel |-> "sendRaw"])
     /\ encrypting' = IF to # Null THEN encrypting \cup {uid} ELSE encrypting
     /\ direct' = [x \in Contexts |->
                     IF x \in RuntimeReach(c) \cap listening THEN [direct[x] EXCEPT ![uid] = 1] ELSE direct[x]]
     /\ promise' = [promise EXCEPT ![uid] = Pending]
     /\ UNCHANGED port

\* BrowserMsg.sendAwait called in generic context c (the caller is not the background page)
sendAwait(c, destString, name, bm, awaitRes) ==
  LET enc == replaceBufWithObjUrlInplace(Obj(bm), blobStore)
  IN /\ c \in Frames
     /\ sendRaw(c, destString, name, enc.v, enc.objUrls, awaitRes, Undefined, Undefined)
     /\ blobStore' = enc.store
     /\ hist' = [hist EXCEPT !.sentBm[Len(msgs) + 1] = bm]
     /\ UNCHANGED <<HANDLERS_REGISTERED_FRAME, HANDLERS_REGISTERED_BACKGROUND, listening, processed,
                    winq, decrypting, tasks, apiCall>>

\* the ways chrome.runtime can fail the caller of sendRaw: chrome.runtime is
\* missing, sendMessage throws 'Extension context invalidated.', or it throws
\* something else
RuntimeFailures == {"missing", "invalidated", "throws"}
SendMessageThrew == PlainErr(<<"chrome.runtime.sendMessage threw">>)

\* sendAwait -> sendRaw in generic context c when chrome.runtime fails: no
\* listener gets the envelope and the callback never runs; the promise is
\* rejected only by an exception that leaves the executor
sendAwaitRuntimeFailure(c, destString, name, bm, awaitRes, failure) ==
  LET enc == replaceBufWithObjUrlInplace(Obj(bm), blobStore)
      uid == Len(msgs) + 1
      to == IF destString = Undefined THEN Null ELSE destString
  IN /\ c \in Frames
     /\ failure \in RuntimeFailures
     /\ Len(msgs) < hist.calls
     /\ msgs' = Append(msgs, [name |-> name, bm |-> enc.v, objUrls |-> enc.objUrls, to |-> to,
                              sender |-> c, awaitRes |-> awaitRes, responseName |-> Undefined,
                              messageSender |-> Undefined, channel |-> "sendRaw"])
     /\ encrypting' = IF to # Null THEN encrypting \cup {uid} ELSE encrypting
     /\ promise' = [promise EXCEPT ![uid] =
                      IF failure = "throws"
                      THEN [state |-> "rejected", value |-> UndefinedValue, err |-> SendMessageThrew]
                      ELSE Pending]
     /\ port' = [port EXCEPT ![uid].runtime = failure]
     /\ blobStore' = enc.store
     /\ hist' = [hist EXCEPT !.sentBm[uid] = bm]
     /\ UNCHANGED <<HANDLERS_REGISTERED_FRAME, HANDLERS_REGISTERED_BACKGROUND, listening, processed,
                    direct, winq, decrypting, tasks, apiCall>>

\* BrowserMsg.sendToParentWindow called in frame c
sendToParentWindow(c, parentTabId, name, bm, responseName, messageSender) ==
  LET uid == Len(msgs) + 1
  IN /\ Len(msgs) < hist.calls
     /\ msgs' = Append(msgs, [name |-> name, bm |-> Obj(bm), objUrls |-> NoObjUrls,
                              to |-> parentTabId, sender |-> c, awaitRes |-> FALSE,
                              responseName |-> responseName, messageSender |-> messageSender,
                              channel |-> "sendToParentWindow"])
     /\ encrypting' = encrypting \cup {uid}
     /\ hist' = [hist EXCEPT !.sentBm[uid] = bm]
     /\ UNCHANGED <<blobStore, HANDLERS_REGISTERED_FRAME, HANDLERS_REGISTERED_BACKGROUND, listening,
                    processed, direct, winq, decrypting, tasks, port, promise, apiCall>>

\* the task of sendRaw / sendToParentWindow resumed after the awaited encrypt
EncryptDone(uid) ==
  LET m == msgs[uid]
      c == m.sender
      q == IF m.channel = "sendRaw"
           THEN sendUpParentLine(postToSelf(sendToChildren(winq, c, encrypt(uid)), c, encrypt(uid)),
                                 c, encrypt(uid))
           ELSE sendUpParentLine(winq, c, encrypt(uid))
      n == IF m.channel = "sendRaw"
           THEN Cardinality(ChildFramesWithExtensionOrigin(c)) + 1 + UpCount(c)
           ELSE UpCount(c)
  IN /\ uid \in encrypting
     /\ encrypting' = encrypting \ {uid}
     /\ winq' = q
     /\ hist' = [hist EXCEPT !.posted[uid] = @ + n, !.sentTo[uid] = PostTargets(m.channel, c)]
     /\ UNCHANGED <<msgs, blobStore, HANDLERS_REGISTERED_FRAME, HANDLERS_REGISTERED_BACKGROUND, listening,
                    processed, direct, decrypting, tasks, port, promise, apiCall>>

\* ------------------------------------------------------------- receiving
\* handleMsg recording only the ids it dispatched
handleMsgMarksDispatched(x, uid) ==
  IF uid \notin processed[x]
  THEN [add |-> HANDLERS_REGISTERED_FRAME[x][msgs[uid].name] # Undefined,
        handled |-> HANDLERS_REGISTERED_FRAME[x][msgs[uid].name] # Undefined]
  ELSE [add |-> FALSE, handled |-> FALSE]

\* handleMsg without the ledger: every delivery of a name with a handler is dispatched
handleMsgNoLedger(x, uid) ==
  [add |-> TRUE, handled |-> HANDLERS_REGISTERED_FRAME[x][msgs[uid].name] # Undefined]

\* a ledger shared by all contexts: an id seen anywhere is seen everywhere
handleMsgSharedLedger(x, uid) ==
  IF uid \notin UNION {processed[c] : c \in Contexts}
  THEN [add |-> TRUE,
        handled |-> HANDLERS_REGISTERED_FRAME[x][msgs[uid].name] # Undefined]
  ELSE [add |-> FALSE, handled |-> FALSE]

\* BrowserMsg.handleMsg in generic context x, the synchronous part: the ledger
\* check and update, and whether a handler task is started (the return value)
handleMsg(x, uid) ==
  IF uid \notin processed[x]
  THEN [add |-> TRUE,
        handled |-> HANDLERS_REGISTERED_FRAME[x][msgs[uid].name] # Undefined]
  ELSE [add |-> FALSE, handled |-> FALSE]

\* replaceObjUrlWithBuf(bm, objUrls).then(bm => sendRawResponse(handler(bm), rawRespond)):
\* with no object URL to consume the handler runs in the same task
NewTask(ctx, uid, via, h, v, objUrls) ==
  LET keys == ConsumableKeys(v, objUrls)
  IN [ctx |-> ctx, uid |-> uid, via |-> via, h |-> h, v |-> v, objUrls |-> objUrls,
      todo |-> keys, stage |-> IF keys = <<>> THEN "run" ELSE "decode"]

Invoked(h, t) ==
  [h EXCEPT !.invoked[t.ctx][t.uid] = @ + 1, !.received[t.ctx][t.uid] = t.v.o]

HistAfterStart(h, t) == IF t.stage = "run" THEN Invoked(h, t) ELSE h

\* a direct-channel listener that hands every envelope to handleMsg, whatever
\* its destination
listenAnyDest(x, uid) ==
  LET m == msgs[uid]
      r == handleMsg(x, uid)
      t == NewTask(x, uid, "direct", HANDLERS_REGISTERED_FRAME[x][m.name], m.bm, m.objUrls)
      h1 == [hist EXCEPT !.delivered[x][uid] = @ + 1]
  IN /\ x \in Frames
     /\ direct[x][uid] > 0
     /\ direct' = [direct EXCEPT ![x][uid] = @ - 1]
     /\ processed' = IF r.add THEN [processed EXCEPT ![x] = @ \cup {uid}] ELSE processed
     /\ tasks' = IF r.handled THEN BagPut(tasks, t, 1) ELSE tasks
     /\ hist' = IF r.handled THEN HistAfterStart(h1, t) ELSE h1
     /\ port' = [port EXCEPT ![uid].keep = @ + 1, ![uid].ran = TRUE]
     /\ UNCHANGED <<msgs, blobStore, HANDLERS_REGISTERED_FRAME, HANDLERS_REGISTERED_BACKGROUND, listening,
                    encrypting, winq, decrypting, promise, apiCall>>

\* the listener BrowserMsg.listen(x) adds to chrome.runtime.onMessage
listen(x, uid) ==
  LET m == msgs[uid]
      r == handleMsg(x, uid)
      t == NewTask(x, uid, "direct", HANDLERS_REGISTERED_FRAME[x][m.name], m.bm, m.objUrls)
      h1 == [hist EXCEPT !.delivered[x][uid] = @ + 1]
  IN /\ x \in Frames
     /\ direct[x][uid] > 0
     /\ direct' = [direct EXCEPT ![x][uid] = @ - 1]
     /\ IF m.to # Null /\ m.to \in {x, Broadcast}
        THEN /\ processed' = IF r.add THEN [processed EXCEPT ![x] = @ \cup {uid}] ELSE processed
             /\ tasks' = IF r.handled THEN BagPut(tasks, t, 1) ELSE tasks
             /\ hist' = IF r.handled THEN HistAfterStart(h1, t) ELSE h1
             /\ port' = [port EXCEPT ![uid].keep = @ + 1, ![uid].ran = TRUE]   \* return true
        ELSE /\ port' = [port EXCEPT ![uid].ran = TRUE]                         \* return false
             /\ UNCHANGED <<processed, tasks, hist>>
     /\ UNCHANGED <<msgs, blobStore, HANDLERS_REGISTERED_FRAME, HANDLERS_REGISTERED_BACKGROUND, listening,
                    encrypting, winq, decrypting, promise, apiCall>>

\* a background listener that answers an unknown name with an error
bgListenReportsUnknown(uid) ==
  LET m == msgs[uid]
      t == NewTask(Bg, uid, "direct", HANDLERS_REGISTERED_BACKGROUND[m.name], m.bm, m.objUrls)
      h1 == [hist EXCEPT !.delivered[Bg][uid] = @ + 1]
      e == [result |-> UndefinedValue, exception |-> errToJson(PlainErr(<<"unknown name">>)),
            objUrls |-> NoObjUrls, set |-> TRUE]
  IN /\ direct[Bg][uid] > 0
     /\ direct' = [direct EXCEPT ![Bg][uid] = @ - 1]
     /\ IF HANDLERS_REGISTERED_BACKGROUND[m.name] # Undefined
        THEN /\ tasks' = BagPut(tasks, t, 1)
             /\ hist' = HistAfterStart(h1, t)
             /\ port' = [port EXCEPT ![uid].keep = @ + 1, ![uid].ran = TRUE]
        ELSE /\ hist' = h1
             /\ port' = [port EXCEPT ![uid].keep = @ + 1, ![uid].ran = TRUE,
                                     ![uid].reply = IF @.set THEN @ ELSE e]
             /\ UNCHANGED tasks
     /\ UNCHANGED <<msgs, blobStore, HANDLERS_REGISTERED_FRAME, HANDLERS_REGISTERED_BACKGROUND, listening,
                    processed, encrypting, winq, decrypting, promise, apiCall>>

\* the listener BrowserMsg.bgListen adds to chrome.runtime.onMessage
bgListen(uid) ==
  LET m == msgs[uid]
      t == NewTask(Bg, uid, "direct", HANDLERS_REGISTERED_BACKGROUND[m.name], m.bm, m.objUrls)
      h1 == [hist EXCEPT !.delivered[Bg][uid] = @ + 1]
  IN /\ direct[Bg][uid] > 0
     /\ direct' = [direct EXCEPT ![Bg][uid] = @ - 1]
     /\ IF HANDLERS_REGISTERED_BACKGROUND[m.name] # Undefined
        THEN /\ tasks' = BagPut(tasks, t, 1)
             /\ hist' = HistAfterStart(h1, t)
             /\ port' = [port EXCEPT ![uid].keep = @ + 1, ![uid].ran = TRUE]   \* return true
        ELSE /\ hist' = h1
             /\ port' = [port EXCEPT ![uid].ran = TRUE]                         \* return false
             /\ UNCHANGED tasks
     /\ UNCHANGED <<msgs, blobStore, HANDLERS_REGISTERED_FRAME, HANDLERS_REGISTERED_BACKGROUND, listening,
                    processed, encrypting, winq, decrypting, promise, apiCall>>

\* a listener that takes messages of every origin
TrustedOriginAny(o) == o \in {MailOrigin, ExtensionOrigin, OtherOrigin}

\* the listener of listenForWindowMessages(f), up to the awaited decrypt;
\* hist.untrusted[f] notes that it has turned a message away for its origin
TrustedOrigin(o) == o = MailOrigin \/ o = ExtensionOrigin
listenForWindowMessages(f, e) ==
  LET uid == e.uid
      to == e.to
  IN /\ BagCount(winq[f], e) > 0
     /\ LET q == [winq EXCEPT ![f] = BagTake(@, e)]
        IN IF ~TrustedOrigin(e.origin)
           THEN /\ winq' = q
                /\ hist' = [hist EXCEPT !.untrusted[f] = 1]
                /\ UNCHANGED <<processed, decrypting>>
           ELSE IF uid \in processed[f]
           THEN /\ winq' = q
                /\ UNCHANGED <<processed, decrypting, hist>>
           ELSE IF to \in {f, Broadcast}
           THEN /\ winq' = q
                /\ decrypting' = [decrypting EXCEPT ![f] = BagPut(@, e, 1)]
                /\ UNCHANGED <<processed, hist>>
           ELSE IF e.propagateToParent
           THEN /\ processed' = [processed EXCEPT ![f] = @ \cup {uid}]
                /\ winq' = sendUpParentLine(q, f, e)
                /\ hist' = [hist EXCEPT !.forwarded[f][uid] = @ + 1,
                                        !.fwdPosts[f][uid] = @ + UpCount(f),
                                        !.posted[uid] = @ + UpCount(f)]
                /\ UNCHANGED decrypting
           ELSE /\ winq' = q
                /\ UNCHANGED <<processed, decrypting, hist>>
     /\ UNCHANGED <<msgs, blobStore, HANDLERS_REGISTERED_FRAME, HANDLERS_REGISTERED_BACKGROUND, listening,
                    encrypting, direct, tasks, port, promise, apiCall>>

\* the same listener resumed after decrypt: handleMsg, then the forward step
DecryptDone(f, e) ==
  LET uid == e.uid
      m == msgs[uid]
      r == handleMsg(f, uid)
      t == NewTask(f, uid, "window", HANDLERS_REGISTERED_FRAME[f][m.name], m.bm, m.objUrls)
      h1 == [hist EXCEPT !.delivered[f][uid] = @ + 1]
      h2 == IF r.handled THEN HistAfterStart(h1, t) ELSE h1
  IN /\ BagCount(decrypting[f], e) > 0
     /\ decrypting' = [decrypting EXCEPT ![f] = BagTake(@, e)]
     /\ tasks' = IF r.handled THEN BagPut(tasks, t, 1) ELSE tasks
     /\ IF ~r.handled /\ e.propagateToParent
        THEN /\ processed' = [processed EXCEPT ![f] = @ \cup {uid}]
             /\ winq' = sendUpParentLine(winq, f, e)
             /\ hist' = [h2 EXCEPT !.forwarded[f][uid] = @ + 1,
                                  !.fwdPosts[f][uid] = @ + UpCount(f),
                                  !.posted[uid] = @ + UpCount(f)]
        ELSE /\ processed' = IF r.add THEN [processed EXCEPT ![f] = @ \cup {uid}] ELSE processed
             /\ hist' = h2
             /\ UNCHANGED winq
     /\ UNCHANGED <<msgs, blobStore, HANDLERS_REGISTERED_FRAME, HANDLERS_REGISTERED_BACKGROUND, listening,
                    encrypting, direct, port, promise, apiCall>>

\* ------------------------------------------------------------- responding
OkResponse(result, objUrls) ==
  [result |-> result, exception |-> NoException, objUrls |-> objUrls, set |-> TRUE]
\* a failure answered as if the handler had returned nothing
ErrResponseNoException(e) ==
  [result |-> UndefinedValue, exception |-> NoException, objUrls |-> NoObjUrls, set |-> TRUE]
ErrResponse(e) ==
  [result |-> UndefinedValue, exception |-> errToJson(e), objUrls |-> NoObjUrls, set |-> TRUE]

\* a window-channel callback that answers whenever the envelope names a response
rawRespondWithoutSender(ctx, uid, via, r) ==
  LET m == msgs[uid]
  IN IF via = "direct"
     THEN /\ port' = [port EXCEPT ![uid].reply = IF @.set \/ ~port[uid].open THEN @ ELSE r]
          /\ UNCHANGED <<msgs, encrypting, direct, promise>>
     ELSE IF m.responseName # Undefined
     THEN sendRaw(ctx, m.messageSender, m.responseName, r.result, r.objUrls, FALSE,
                  Undefined, Undefined)
     ELSE UNCHANGED <<msgs, encrypting, direct, port, promise>>

\* the rawRespond callback handed to handleMsg / used by bgListen, called with r
\* in context ctx for envelope uid: on the direct channel the reply of
\* chrome.runtime.sendMessage (the first one wins); on the window channel
\* (listenForWindowMessages) a new request to messageSender, when asked for
rawRespond(ctx, uid, via, r) ==
  LET m == msgs[uid]
  IN IF via = "direct"
     THEN /\ port' = [port EXCEPT ![uid].reply = IF @.set \/ ~port[uid].open THEN @ ELSE r]
          /\ UNCHANGED <<msgs, encrypting, direct, promise>>
     ELSE IF m.responseName # Undefined /\ m.messageSender # Undefined
     THEN sendRaw(ctx, m.messageSender, m.responseName, r.result, r.objUrls, FALSE,
                  Undefined, Undefined)
     ELSE UNCHANGED <<msgs, encrypting, direct, port, promise>>

ConsumeFailed == PlainErr(<<"objUrlConsume failed">>)

\* a handler task resumed after an awaited Browser.objUrlConsume of
\* replaceObjUrlWithBuf: the next field is filled in; after the last one the
\* handler is called; a failed consume goes to .catch and responds with the error
TaskConsume(t) ==
  LET f == Head(t.todo)
      url == t.objUrls[f]
      ok == objUrlConsumable(blobStore, url)
      v2 == Obj(ReplaceObjUrlField(t.v.o, f, blobStore, url))
      rest == Tail(t.todo)
      t2 == [t EXCEPT !.v = v2, !.todo = rest, !.stage = IF rest = <<>> THEN "run" ELSE "decode"]
  IN /\ BagCount(tasks, t) > 0
     /\ t.stage = "decode"
     /\ t.via \in {"direct", "window"}
     /\ blobStore' = objUrlConsume(blobStore, url, t.ctx)
     /\ IF ok
        THEN /\ tasks' = BagPut(BagTake(tasks, t), t2, 1)
             /\ hist' = HistAfterStart(hist, t2)
             /\ UNCHANGED <<msgs, encrypting, direct, port, promise>>
        ELSE /\ tasks' = BagTake(tasks, t)
             /\ rawRespond(t.ctx, t.uid, t.via, ErrResponse(ConsumeFailed))
             /\ UNCHANGED hist
     /\ UNCHANGED <<HANDLERS_REGISTERED_FRAME, HANDLERS_REGISTERED_BACKGROUND, listening, processed,
                    winq, decrypting, apiCall>>

\* rawRespond throws in context ctx: the reply callback of
\* chrome.runtime.onMessage does when the page that sent the envelope is gone;
\* bgListen wraps the callback in respondIfPageStillOpen, which catches that
DisconnectedErr == PlainErr(<<"Attempting to use a disconnected port object">>)
RespondThrows(ctx, uid, via) == via = "direct" /\ ctx # Bg /\ ~port[uid].open

\* the responses sendRawResponse hands to rawRespond, in order, for a handler
\* promise settled as b: the .then callback's response, and the .catch
\* callback's response when the handler failed or the .then callback threw
Responses(b, enc, thenThrows) ==
  IF b.ok
  THEN IF thenThrows THEN <<OkResponse(enc.v, enc.objUrls), ErrResponse(DisconnectedErr)>>
       ELSE <<OkResponse(enc.v, enc.objUrls)>>
  ELSE <<ErrResponse(b.err)>>

\* sendRawResponse(handler(bm), rawRespond) once the handler's promise settles
sendRawResponse(t) ==
  LET b == Behaviour(t.h)
      enc == replaceBufWithObjUrlInplace(b.res, blobStore)
      rs == Responses(b, enc, RespondThrows(t.ctx, t.uid, t.via))
  IN /\ BagCount(tasks, t) > 0
     /\ t.stage = "run"
     /\ tasks' = BagTake(tasks, t)
     /\ blobStore' = IF b.ok THEN enc.store ELSE blobStore
     /\ rawRespond(t.ctx, t.uid, t.via, rs[1])
     /\ hist' = [hist EXCEPT !.respondCalls[t.ctx][t.uid] = @ + Len(rs),
                             !.responses = @ \cup {rs[i] : i \in 1 .. Len(rs)}]
     /\ UNCHANGED <<HANDLERS_REGISTERED_FRAME, HANDLERS_REGISTERED_BACKGROUND, listening, processed,
                    winq, decrypting, apiCall>>

\* the page that sent envelope uid is closed while the call is outstanding
PageClosed(uid) ==
  /\ uid \in 1 .. Len(msgs)
  /\ msgs[uid].channel = "sendRaw"
  /\ port[uid].open
  /\ ~port[uid].called
  /\ port' = [port EXCEPT ![uid].open = FALSE]
  /\ UNCHANGED <<msgs, blobStore, HANDLERS_REGISTERED_FRAME, HANDLERS_REGISTERED_BACKGROUND, listening,
                 processed, encrypting, direct, winq, decrypting, tasks, promise, hist, apiCall>>

\* ------------------------------------------------------------- the caller's side
PortClosedText == "The message port closed before a response was received."
NoReceiverText == "Could not establish connection. Receiving end does not exist."
NotClonedText == "The object could not be cloned."
UnknownErrorText == "Some other failure."

\* a callback that resolves with the raw result and leaves its object URLs alone
processRawMsgResponseNoDecode(m, r, lastError) ==
  [do |-> IF m.awaitRes /\ (~r.set \/ r.exception.errorConstructor # Undefined) THEN "reject" ELSE "resolve",
   value |-> IF m.awaitRes THEN r.result ELSE UndefinedValue, err |-> NoErr]

\* a callback that takes every missing reply for a background page not ready
processRawMsgResponseAllTransient(m, r, lastError) ==
  IF ~m.awaitRes THEN [do |-> "resolve", value |-> UndefinedValue, err |-> NoErr]
  ELSE IF ~r.set
  THEN [do |-> "reject", value |-> UndefinedValue,
        err |-> BgNotReadyErr(<<"BgNotReadyErr: BrowserMsg.sendAwait(", m.name, ") failed with lastError: ", lastError>>)]
  ELSE IF r.exception.errorConstructor # Undefined
  THEN [do |-> "reject", value |-> UndefinedValue, err |-> jsonToErr(r.exception, m.name)]
  ELSE [do |-> IF ConsumableKeys(r.result, r.objUrls) = <<>> THEN "resolve" ELSE "decode",
        value |-> r.result, err |-> NoErr]

\* processRawMsgResponse(r) of sendRaw for envelope m; lastError is
\* chrome.runtime.lastError.message.  "decode" stands for the call of
\* replaceObjUrlWithBuf(r.result, r.objUrls) whose outcome settles the promise.
processRawMsgResponse(m, r, lastError) ==
  IF ~m.awaitRes THEN [do |-> "resolve", value |-> UndefinedValue, err |-> NoErr]
  ELSE IF ~r.set
  THEN [do |-> "reject", value |-> UndefinedValue,
        err |-> IF m.to = Null
                THEN IF lastError = NotClonedText
                     THEN PlainErr(<<"BrowserMsg.sendAwait(", m.name, ") failed with lastError: ", lastError>>)
                     ELSE IF lastError = NoReceiverText \/ lastError = PortClosedText
                     THEN BgNotReadyErr(<<"BgNotReadyErr: BrowserMsg.sendAwait(", m.name, ") failed with lastError: ", lastError>>)
                     ELSE PlainErr(<<"BrowserMsg.sendAwait(", m.name, ") failed with unknown lastError: ", lastError>>)
                ELSE PlainErr(<<"BrowserMsg.sendAwait(", m.name, ") returned(undefined) with lastError: ", lastError>>)]
  ELSE IF r.exception.errorConstructor # Undefined
  THEN [do |-> "reject", value |-> UndefinedValue, err |-> jsonToErr(r.exception, m.name)]
  ELSE IF r.result.t # "object"
  THEN [do |-> "resolve", value |-> r.result, err |-> NoErr]
  ELSE IF ConsumableKeys(r.result, r.objUrls) = <<>>
  THEN [do |-> "resolve", value |-> r.result, err |-> NoErr]
  ELSE [do |-> "decode", value |-> r.result, err |-> NoErr]

Settle(uid, out) ==
  IF promise[uid].state # "pending" THEN promise
  ELSE IF out.do = "resolve"
  THEN [promise EXCEPT ![uid] = [state |-> "resolved", value |-> out.value, err |-> NoErr]]
  ELSE [promise EXCEPT ![uid] = [state |-> "rejected", value |-> UndefinedValue, err |-> out.err]]

\* one callback slot for all calls: a reply settles the oldest call that is
\* still waiting, whichever envelope it answers
ReplyArrivesOldest(uid) ==
  LET r == port[uid].reply
      waiting == {u \in 1 .. Len(msgs) : promise[u].state = "pending"}
      v == IF waiting = {} THEN uid ELSE CHOOSE u \in waiting : \A w \in waiting : u <= w
      out == processRawMsgResponse(msgs[v], r, "")
  IN /\ uid \in 1 .. Len(msgs)
     /\ r.set
     /\ ~port[uid].called
     /\ port[uid].open
     /\ port' = [port EXCEPT ![uid].called = TRUE]
     /\ IF out.do = "decode"
        THEN /\ tasks' = BagPut(tasks, NewTask(msgs[v].sender, v, "reply", Undefined, r.result, r.objUrls), 1)
             /\ UNCHANGED promise
        ELSE /\ promise' = Settle(v, out)
             /\ UNCHANGED tasks
     /\ UNCHANGED <<msgs, blobStore, HANDLERS_REGISTERED_FRAME, HANDLERS_REGISTERED_BACKGROUND, listening,
                    processed, encrypting, direct, winq, decrypting, hist, apiCall>>

\* the callback of chrome.runtime.sendMessage runs with the reply r
ReplyArrives(uid) ==
  LET m == msgs[uid]
      r == port[uid].reply
      out == processRawMsgResponse(m, r, "")
  IN /\ uid \in 1 .. Len(msgs)
     /\ r.set
     /\ ~port[uid].called
     /\ port[uid].open
     /\ port' = [port EXCEPT ![uid].called = TRUE]
     /\ IF out.do = "decode"
        THEN /\ tasks' = BagPut(tasks, NewTask(m.sender, uid, "reply", Undefined, r.result, r.objUrls), 1)
             /\ UNCHANGED promise
        ELSE /\ promise' = Settle(uid, out)
             /\ UNCHANGED tasks
     /\ UNCHANGED <<msgs, blobStore, HANDLERS_REGISTERED_FRAME, HANDLERS_REGISTERED_BACKGROUND, listening,
                    processed, encrypting, direct, winq, decrypting, hist, apiCall>>

\* the caller's replaceObjUrlWithBuf(r.result, r.objUrls).then(resolve).catch(reject)
\* resumed after an awaited objUrlConsume
ReplyConsume(t) ==
  LET f == Head(t.todo)
      url == t.objUrls[f]
      ok == objUrlConsumable(blobStore, url)
      v2 == Obj(ReplaceObjUrlField(t.v.o, f, blobStore, url))
      rest == Tail(t.todo)
  IN /\ BagCount(tasks, t) > 0
     /\ t.stage = "decode"
     /\ t.via = "reply"
     /\ blobStore' = objUrlConsume(blobStore, url, t.ctx)
     /\ IF ok /\ rest # <<>>
        THEN /\ tasks' = BagPut(BagTake(tasks, t), [t EXCEPT !.v = v2, !.todo = rest], 1)
             /\ UNCHANGED promise
        ELSE /\ tasks' = BagTake(tasks, t)
             /\ promise' = Settle(t.uid, IF ok THEN [do |-> "resolve", value |-> v2, err |-> NoErr]
                                         ELSE [do |-> "reject", value |-> UndefinedValue,
                                               err |-> ConsumeFailed])
     /\ UNCHANGED <<msgs, HANDLERS_REGISTERED_FRAME, HANDLERS_REGISTERED_BACKGROUND, listening, processed,
                    encrypting, direct, winq, decrypting, port, hist, apiCall>>

\* no listener returned true and none is left to run: the platform closes the
\* port and runs the callback with no reply and lastError set
PortClosed(uid) ==
  LET m == msgs[uid]
      out == processRawMsgResponse(m, NoReply, PortClosedText)
  IN /\ uid \in 1 .. Len(msgs)
     /\ m.channel = "sendRaw"
     /\ \A x \in Contexts : direct[x][uid] = 0
     /\ port[uid].keep = 0
     /\ ~port[uid].reply.set
     /\ ~port[uid].called
     /\ port[uid].ran
     /\ port[uid].runtime = "ok"
     /\ port[uid].open
     /\ port' = [port EXCEPT ![uid].called = TRUE, ![uid].lastError = PortClosedText]
     /\ promise' = Settle(uid, out)
     /\ UNCHANGED <<msgs, blobStore, HANDLERS_REGISTERED_FRAME, HANDLERS_REGISTERED_BACKGROUND, listening,
                    processed, encrypting, direct, winq, decrypting, tasks, hist, apiCall>>

\* chrome.runtime.sendMessage could not hand the envelope to any listener: the
\* callback runs with no reply and chrome.runtime.lastError set.  With no
\* listener in reach the text is NoReceiverText; a payload the platform cannot
\* serialise gives NotClonedText; any other text is UnknownErrorText
SendMessageFails(uid, lastError) ==
  LET m == msgs[uid]
      out == processRawMsgResponse(m, NoReply, lastError)
  IN /\ uid \in 1 .. Len(msgs)
     /\ m.channel = "sendRaw"
     /\ lastError \in {NoReceiverText, NotClonedText, UnknownErrorText}
     /\ lastError = NoReceiverText <=> \A x \in Contexts : direct[x][uid] = 0
     /\ ~port[uid].ran
     /\ port[uid].runtime = "ok"
     /\ port[uid].open
     /\ ~port[uid].reply.set
     /\ ~port[uid].called
     /\ direct' = [x \in Contexts |-> [direct[x] EXCEPT ![uid] = 0]]
     /\ port' = [port EXCEPT ![uid].called = TRUE, ![uid].lastError = lastError]
     /\ promise' = Settle(uid, out)
     /\ UNCHANGED <<msgs, blobStore, HANDLERS_REGISTERED_FRAME, HANDLERS_REGISTERED_BACKGROUND, listening,
                    processed, encrypting, winq, decrypting, tasks, hist, apiCall>>

\* the direct channel delivers an envelope to a listener once more
\* ("sometimes received events get duplicated", handleMsg)
DirectDuplicate(x, uid) ==
  /\ hist.dups < MaxDup
  /\ direct[x][uid] > 0
  /\ direct' = [direct EXCEPT ![x][uid] = @ + 1]
  /\ hist' = [hist EXCEPT !.dups = @ + 1]
  /\ UNCHANGED <<msgs, blobStore, HANDLERS_REGISTERED_FRAME, HANDLERS_REGISTERED_BACKGROUND, listening,
                 processed, encrypting, winq, decrypting, tasks, port, promise, apiCall>>

\* ------------------------------------------------------------- background page to itself
\* calling undefined as a function
NotAFunction == [NoErr EXCEPT !.ctor = "TypeError", !.message = <<"handler is not a function">>]

\* BrowserMsg.sendAwait(undefined, name, bm, awaitRes) called in the background
\* page: messaging is skipped and the handler of the background registry is
\* called in-process, up to the await of its promise
sendAwaitBypass(name, bm, awaitRes) ==
  LET uid == Len(msgs) + 1
      h == HANDLERS_REGISTERED_BACKGROUND[name]
      t == [NewTask(Bg, uid, "bypass", h, Obj(bm), NoObjUrls) EXCEPT !.stage = "await"]
      h1 == [hist EXCEPT !.sentBm[uid] = bm]
  IN /\ Len(msgs) < hist.calls
     /\ msgs' = Append(msgs, [name |-> name, bm |-> Obj(bm), objUrls |-> NoObjUrls, to |-> Null,
                              sender |-> Bg, awaitRes |-> awaitRes, responseName |-> Undefined,
                              messageSender |-> Undefined, channel |-> "bypass"])
     /\ IF h = Undefined
        THEN /\ promise' = [promise EXCEPT ![uid] =
                              [state |-> "rejected", value |-> UndefinedValue, err |-> NotAFunction]]
             /\ hist' = h1
             /\ UNCHANGED tasks
        ELSE /\ promise' = [promise EXCEPT ![uid] = Pending]
             /\ tasks' = BagPut(tasks, t, 1)
             /\ hist' = Invoked(h1, t)
     /\ UNCHANGED <<blobStore, HANDLERS_REGISTERED_FRAME, HANDLERS_REGISTERED_BACKGROUND, listening,
                    processed, encrypting, direct, winq, decrypting, port, apiCall>>

\* 'return await handler(bm)' resumed when the handler's promise settles
BypassSettles(t) ==
  LET b == Behaviour(t.h)
  IN /\ BagCount(tasks, t) > 0
     /\ t.stage = "await"
     /\ tasks' = BagTake(tasks, t)
     /\ promise' = Settle(t.uid, IF b.ok THEN [do |-> "resolve", value |-> b.res, err |-> NoErr]
                                 ELSE [do |-> "reject", value |-> UndefinedValue, err |-> b.err])
     /\ UNCHANGED <<msgs, blobStore, HANDLERS_REGISTERED_FRAME, HANDLERS_REGISTERED_BACKGROUND, listening,
                    processed, encrypting, direct, winq, decrypting, port, hist, apiCall>>

\* ------------------------------------------------------------- fire and forget
\* sendCatch is the only caller of sendAwait that leaves awaitRes false: every
\* envelope with awaitRes = FALSE was sent by sendCatch, which returns as soon
\* as sendAwait has returned its promise.

\* a rejection handler that reports the error and throws it again
sendCatchRethrows(uid) ==
  /\ uid \in 1 .. Len(msgs)
  /\ ~msgs[uid].awaitRes
  /\ promise[uid].state = "rejected"
  /\ hist.reported[uid] = NoErr
  /\ hist' = [hist EXCEPT !.reported[uid] = promise[uid].err, !.escaped[uid] = TRUE]
  /\ UNCHANGED <<msgs, blobStore, HANDLERS_REGISTERED_FRAME, HANDLERS_REGISTERED_BACKGROUND, listening,
                 processed, encrypting, direct, winq, decrypting, tasks, port, promise, apiCall>>

\* the rejection handler of sendCatch, .catch(Catch.reportErr), runs for the
\* rejected promise of sendAwait: the error goes to Catch.reportErr and the
\* promise of the chain, which nobody holds, is fulfilled
sendCatchReportErr(uid) ==
  /\ uid \in 1 .. Len(msgs)
  /\ ~msgs[uid].awaitRes
  /\ promise[uid].state = "rejected"
  /\ hist.reported[uid] = NoErr
  /\ hist' = [hist EXCEPT !.reported[uid] = promise[uid].err]
  /\ UNCHANGED <<msgs, blobStore, HANDLERS_REGISTERED_FRAME, HANDLERS_REGISTERED_BACKGROUND, listening,
                 processed, encrypting, direct, winq, decrypting, tasks, port, promise, apiCall>>

\* ------------------------------------------------------------- background page to a tab
\* The tabs chrome.tabs.query({active, currentWindow}) can return: the tab
\* that holds the frames of the model, and a tab with no listener.
MailTab == "mailTab"
OtherTab == "otherTab"
Tabs == {MailTab, OtherTab}
FramesOfTab(tab) == IF tab = MailTab THEN Frames ELSE {}

\* the value a promise resolved with the raw response r holds
RawValue(r) == [t |-> "rawResponse", o |-> EmptyObj, raw |-> r]

\* BrowserMsg.sendAwait(destString, ..) called in the background page with a
\* destination: sendRaw skips the window task and hands the envelope to every
\* tab of activeTabs with chrome.tabs.sendMessage(tab.id, msg, resolve)
sendAwaitFromBackground(destString, name, bm, awaitRes, activeTabs) ==
  LET enc == replaceBufWithObjUrlInplace(Obj(bm), blobStore)
      uid == Len(msgs) + 1
      reached == UNION {FramesOfTab(tab) : tab \in activeTabs} \cap listening
  IN /\ destString # Undefined
     /\ Len(msgs) < hist.calls
     /\ msgs' = Append(msgs, [name |-> name, bm |-> enc.v, objUrls |-> enc.objUrls, to |-> destString,
                              sender |-> Bg, awaitRes |-> awaitRes, responseName |-> Undefined,
                              messageSender |-> Undefined, channel |-> "sendRaw"])
     /\ direct' = [x \in Contexts |-> IF x \in reached THEN [direct[x] EXCEPT ![uid] = 1] ELSE direct[x]]
     /\ promise' = [promise EXCEPT ![uid] = Pending]
     /\ port' = [port EXCEPT ![uid].tabs = activeTabs]
     /\ blobStore' = enc.store
     /\ hist' = [hist EXCEPT !.sentBm[uid] = bm]
     /\ UNCHANGED <<HANDLERS_REGISTERED_FRAME, HANDLERS_REGISTERED_BACKGROUND, listening, processed,
                    encrypting, winq, decrypting, tasks, apiCall>>

\* the reply chrome.tabs.sendMessage has for the callback of tab: the first
\* response of a listener of the tab; undefined when the tab has no listener,
\* or when every listener has run and none said it will respond
TabHasReply(uid, tab) ==
  \/ FramesOfTab(tab) \cap listening = {}
  \/ port[uid].reply.set
  \/ (\A x \in Contexts : direct[x][uid] = 0) /\ port[uid].keep = 0
TabReply(uid, tab) ==
  IF FramesOfTab(tab) \cap listening # {} /\ port[uid].reply.set
  THEN RawValue(port[uid].reply) ELSE UndefinedValue

\* a callback that treats the tab's reply as sendRaw treats a reply elsewhere
tabsSendMessageCallbackClassifies(uid, tab) ==
  LET out == processRawMsgResponse(msgs[uid], port[uid].reply, NoReceiverText)
  IN /\ uid \in 1 .. Len(msgs)
     /\ tab \in port[uid].tabs \ port[uid].tabsDone
     /\ TabHasReply(uid, tab)
     /\ port' = [port EXCEPT ![uid].tabsDone = @ \cup {tab}, ![uid].called = TRUE]
     /\ promise' = Settle(uid, [out EXCEPT !.do = IF @ = "decode" THEN "resolve" ELSE @])
     /\ UNCHANGED <<msgs, blobStore, HANDLERS_REGISTERED_FRAME, HANDLERS_REGISTERED_BACKGROUND, listening,
                    processed, encrypting, direct, winq, decrypting, tasks, hist, apiCall>>

\* the callback of chrome.tabs.sendMessage for one tab: resolve itself
tabsSendMessageCallback(uid, tab) ==
  /\ uid \in 1 .. Len(msgs)
  /\ tab \in port[uid].tabs \ port[uid].tabsDone
  /\ TabHasReply(uid, tab)
  /\ port' = [port EXCEPT ![uid].tabsDone = @ \cup {tab}, ![uid].called = TRUE]
  /\ promise' = Settle(uid, [do |-> "resolve", value |-> TabReply(uid, tab), err |-> NoErr])
  /\ UNCHANGED <<msgs, blobStore, HANDLERS_REGISTERED_FRAME, HANDLERS_REGISTERED_BACKGROUND, listening,
                 processed, encrypting, direct, winq, decrypting, tasks, hist, apiCall>>

\* ------------------------------------------------------------- other scripts
\* A script of another origin posts to window f a copy of an encrypted message
\* it has seen on the window channel, with or without the propagation flag;
\* one such message is under way at a time.
ForeignPost(f, uid, flag) ==
  /\ uid \in 1 .. Len(msgs)
  /\ uid \notin encrypting
  /\ hist.posted[uid] > 0
  /\ \A g \in Frames : \A e \in DOMAIN winq[g] : BagCount(winq[g], e) > 0 => e.origin # OtherOrigin
  /\ winq' = postMessage(winq, f, [MessageEvent(encrypt(uid), f, flag) EXCEPT !.origin = OtherOrigin], 1)
  /\ UNCHANGED <<msgs, blobStore, HANDLERS_REGISTERED_FRAME, HANDLERS_REGISTERED_BACKGROUND, listening,
                 processed, encrypting, direct, decrypting, tasks, port, promise, hist, apiCall>>

\* ------------------------------------------------------------- registries
\* hist.registered is the log of the calls, for the properties, each with the
\* number of deliveries the context had taken by then
addListener(f, name, handler) ==
  /\ Len(hist.registered) < MaxRegs
  /\ HANDLERS_REGISTERED_FRAME' = [HANDLERS_REGISTERED_FRAME EXCEPT ![f][name] = handler]
  /\ hist' = [hist EXCEPT !.registered = Append(@, [ctx |-> f, name |-> name, handler |-> handler,
                                                  delivered |-> hist.delivered[f]])]
  /\ UNCHANGED <<msgs, blobStore, HANDLERS_REGISTERED_BACKGROUND, listening, processed, encrypting,
                 direct, winq, decrypting, tasks, port, promise, apiCall>>

\* a registration that does not overwrite an earlier one
bgAddListenerKeepFirst(name, handler) ==
  /\ Len(hist.registered) < MaxRegs
  /\ HANDLERS_REGISTERED_BACKGROUND' =
       IF HANDLERS_REGISTERED_BACKGROUND[name] = Undefined
       THEN [HANDLERS_REGISTERED_BACKGROUND EXCEPT ![name] = handler]
       ELSE HANDLERS_REGISTERED_BACKGROUND
  /\ hist' = [hist EXCEPT !.registered = Append(@, [ctx |-> Bg, name |-> name, handler |-> handler,
                                                  delivered |-> hist.delivered[Bg]])]
  /\ UNCHANGED <<msgs, blobStore, HANDLERS_REGISTERED_FRAME, listening, processed, encrypting,
                 direct, winq, decrypting, tasks, port, promise, apiCall>>

bgAddListener(name, handler) ==
  /\ Len(hist.registered) < MaxRegs
  /\ HANDLERS_REGISTERED_BACKGROUND' = [HANDLERS_REGISTERED_BACKGROUND EXCEPT ![name] = handler]
  /\ hist' = [hist EXCEPT !.registered = Append(@, [ctx |-> Bg, name |-> name, handler |-> handler,
                                                  delivered |-> hist.delivered[Bg]])]
  /\ UNCHANGED <<msgs, blobStore, HANDLERS_REGISTERED_FRAME, listening, processed, encrypting,
                 direct, winq, decrypting, tasks, port, promise, apiCall>>

\* ------------------------------------------------------------- specifications
PlainBm == [f \in Fields |-> IF f = "f1" THEN Val ELSE Undef]
BufBm == [f \in Fields |-> IF f = "f1" THEN Buf([i \in 1 .. MaxBufLen |-> 1]) ELSE Val]

\* the frames of H have handler h for "ping", no other handler is registered
Registered(H, h) ==
  [f \in Frames |-> [n \in Names |-> IF n = "ping" /\ f \in H THEN h ELSE Undefined]]

\* the steps of the window channel
WindowSteps ==
  \/ \E uid \in encrypting : EncryptDone(uid)
  \/ \E f \in Frames : \E e \in DOMAIN winq[f] : listenForWindowMessages(f, e)
  \/ \E f \in Frames : \E e \in DOMAIN decrypting[f] : DecryptDone(f, e)

\* the steps of the direct channel between generic contexts
FrameSteps ==
  \/ \E x \in Frames, uid \in 1 .. Len(msgs) : listen(x, uid)
  \/ \E t \in DOMAIN tasks : sendRawResponse(t)
  \/ \E uid \in 1 .. Len(msgs) : ReplyArrives(uid)

Duplicate == \E x \in Contexts, uid \in 1 .. Len(msgs) : DirectDuplicate(x, uid)

\* The bus between frame S and its parent B: each may or may not have a handler
\* for "ping"; S sends one "ping" to everybody, with or without a binary field.
InitBus ==
  /\ InitCommon
  /\ listening = {"S", "B"}
  /\ \E H \in SUBSET listening : HANDLERS_REGISTERED_FRAME = Registered(H, "respondObj")
  /\ HANDLERS_REGISTERED_BACKGROUND = NoHandlers

NextBus ==
  \/ /\ msgs = <<>>
     /\ \E bm \in {PlainBm, BufBm} : sendAwait("S", Broadcast, "ping", bm, FALSE)
  \/ WindowSteps
  \/ FrameSteps
  \/ \E t \in DOMAIN tasks : TaskConsume(t)
  \/ Duplicate

SpecBus == InitBus /\ [][NextBus]_vars

\* Frame S has up to MaxCalls awaited calls to the background page outstanding
\* at the same time; the two names have different handlers, so that the reply
\* to one call differs from the reply to the other.
InitInterleave ==
  /\ TransportIdle
  /\ hist = [NoHist EXCEPT !.calls = MaxCalls]
  /\ apiCall = NoCall
  /\ listening = {"S", Bg}
  /\ HANDLERS_REGISTERED_FRAME = Registered({}, "respondObj")
  /\ \E h \in {"respondBuf", "throwErr", "respondScalar"} :
       HANDLERS_REGISTERED_BACKGROUND = [n \in Names |-> IF n = "ping" THEN "respondObj" ELSE h]

NextInterleave ==
  \/ \E name \in Names : sendAwait("S", Undefined, name, PlainBm, TRUE)
  \/ \E uid \in 1 .. Len(msgs) : bgListen(uid)
  \/ \E t \in DOMAIN tasks : sendRawResponse(t)
  \/ \E uid \in 1 .. Len(msgs) : ReplyArrives(uid)
  \/ \E t \in DOMAIN tasks : ReplyConsume(t)

SpecInterleave == InitInterleave /\ [][NextInterleave]_vars

\* The window channel seen from outside: B, which has two child frames, sends
\* one envelope to top or to everybody, or S sends one to top with
\* sendToParentWindow; every frame listens and top may have a handler.
InitWindow ==
  /\ InitCommon
  /\ listening = Frames
  /\ \E H \in SUBSET {"top"} : HANDLERS_REGISTERED_FRAME = Registered(H, "responseless")
  /\ HANDLERS_REGISTERED_BACKGROUND = NoHandlers

NextWindow ==
  \/ /\ msgs = <<>>
     /\ \E dest \in {"top", Broadcast}, bm \in {PlainBm, BufBm} : sendAwait("B", dest, "ping", bm, FALSE)
  \/ /\ msgs = <<>>
     /\ \E bm \in {PlainBm, BufBm} : sendToParentWindow("S", "top", "ping", bm, Undefined, Undefined)
  \/ WindowSteps
  \/ \E x \in Frames, uid \in 1 .. Len(msgs) : listen(x, uid)
  \/ \E t \in DOMAIN tasks : sendRawResponse(t)
  \/ \E t \in DOMAIN tasks : TaskConsume(t)

SpecWindow == InitWindow /\ [][NextWindow]_vars

\* A request on the window channel with its answer: S sends "ping" to its
\* parent B with sendToParentWindow, with or without a responseName ("other")
\* and a messageSender (S); B has a handler for "ping", S one for "other".
InitParentWindow ==
  /\ TransportIdle
  /\ hist = [NoHist EXCEPT !.calls = MaxCalls]
  /\ apiCall = NoCall
  /\ listening = {"S", "B"}
  /\ \E h \in {"respondObj", "respondBuf", "responseless", "throwErr"} :
       HANDLERS_REGISTERED_FRAME =
         [f \in Frames |-> [n \in Names |->
            IF f = "B" /\ n = "ping" THEN h
            ELSE IF f = "S" /\ n = "other" THEN "responseless" ELSE Undefined]]
  /\ HANDLERS_REGISTERED_BACKGROUND = NoHandlers

NextParentWindow ==
  \/ /\ msgs = <<>>
     /\ \E responseName \in {Undefined, "other"}, messageSender \in {Undefined, "S"} :
          sendToParentWindow("S", "B", "ping", PlainBm, responseName, messageSender)
  \/ WindowSteps
  \/ \E x \in Frames, uid \in 1 .. Len(msgs) : listen(x, uid)
  \/ \E t \in DOMAIN tasks : sendRawResponse(t)
  \/ \E t \in DOMAIN tasks : TaskConsume(t)
  \/ \E uid \in 1 .. Len(msgs) : ReplyArrives(uid)

SpecParentWindow == InitParentWindow /\ [][NextParentWindow]_vars

\* The background page sends "ping" to a named destination; top and B listen,
\* B may have a handler; any set of tabs is active.
InitPrivileged ==
  /\ InitCommon
  /\ listening = {"top", "B", Bg}
  /\ \E h \in {"respondObj", "respondBuf", "throwErr", Undefined} :
       HANDLERS_REGISTERED_FRAME =
         [f \in Frames |-> [n \in Names |-> IF f = "B" /\ n = "ping" THEN h ELSE Undefined]]
  /\ HANDLERS_REGISTERED_BACKGROUND = [n \in Names |-> IF n = "ping" THEN "respondObj" ELSE Undefined]

NextPrivileged ==
  \/ /\ msgs = <<>>
     /\ \E dest \in {"B", "A", Broadcast}, bm \in {PlainBm, BufBm}, awaitRes \in BOOLEAN,
           activeTabs \in SUBSET Tabs :
          sendAwaitFromBackground(dest, "ping", bm, awaitRes, activeTabs)
  \/ \E x \in Frames, uid \in 1 .. Len(msgs) : listen(x, uid)
  \/ \E t \in DOMAIN tasks : TaskConsume(t)
  \/ \E t \in DOMAIN tasks : sendRawResponse(t)
  \/ \E uid \in 1 .. Len(msgs), tab \in Tabs : tabsSendMessageCallback(uid, tab)

SpecPrivileged == InitPrivileged /\ [][NextPrivileged]_vars

\* Window messages of another origin: S sends "ping" to its parent B or to
\* everybody, B may have a handler, and a script of another origin posts
\* copies of the encrypted message to S or B.
InitForeign ==
  /\ InitCommon
  /\ listening = {"S", "B"}
  /\ \E H \in SUBSET {"B"} : HANDLERS_REGISTERED_FRAME = Registered(H, "respondObj")
  /\ HANDLERS_REGISTERED_BACKGROUND = NoHandlers

NextForeign ==
  \/ /\ msgs = <<>>
     /\ \E dest \in {"B", Broadcast} : sendAwait("S", dest, "ping", PlainBm, FALSE)
  \/ \E f \in listening, uid \in 1 .. Len(msgs), flag \in BOOLEAN : ForeignPost(f, uid, flag)
  \/ WindowSteps
  \/ FrameSteps

SpecForeign == InitForeign /\ [][NextForeign]_vars

\* The codec between frame S and its parent B, which has a handler: S sends B
\* one "ping" with any payload.
InitCodec ==
  /\ InitCommon
  /\ listening = {"S", "B"}
  /\ HANDLERS_REGISTERED_FRAME = Registered({"B"}, "respondObj")
  /\ HANDLERS_REGISTERED_BACKGROUND = NoHandlers

NextCodec ==
  \/ /\ msgs = <<>>
     /\ \E bm \in Objects : sendAwait("S", "B", "ping", bm, FALSE)
  \/ WindowSteps
  \/ FrameSteps
  \/ \E t \in DOMAIN tasks : TaskConsume(t)
  \/ Duplicate

SpecCodec == InitCodec /\ [][NextCodec]_vars

\* Calls to the background page: frame S (frame B listens too) calls "ping";
\* the background page has any handler, or none, for it.
InitBg ==
  /\ InitCommon
  /\ listening = {"S", "B", Bg}
  /\ HANDLERS_REGISTERED_FRAME = Registered({"B"}, "respondObj")
  /\ \E h \in HandlerIds \cup {Undefined} :
       HANDLERS_REGISTERED_BACKGROUND = [n \in Names |-> IF n = "ping" THEN h ELSE Undefined]

SendBg ==
  \E bm \in {PlainBm, BufBm}, awaitRes \in BOOLEAN :
    sendAwait("S", Undefined, "ping", bm, awaitRes)

BgSteps ==
  \/ \E x \in Frames, uid \in 1 .. Len(msgs) : listen(x, uid)
  \/ \E uid \in 1 .. Len(msgs) : bgListen(uid)
  \/ \E t \in DOMAIN tasks : TaskConsume(t)
  \/ \E t \in DOMAIN tasks : sendRawResponse(t)
  \/ \E uid \in 1 .. Len(msgs) : ReplyArrives(uid)
  \/ \E t \in DOMAIN tasks : ReplyConsume(t)
  \/ \E uid \in 1 .. Len(msgs) : PortClosed(uid)

NextBg ==
  \/ SendBg
  \/ BgSteps

SpecBg == InitBg /\ [][NextBg]_vars

\* the same, the direct channel delivering an envelope more than once
NextBgDup ==
  \/ SendBg
  \/ BgSteps
  \/ Duplicate

SpecBgDup == InitBg /\ [][NextBgDup]_vars

\* One envelope followed through the hierarchy top > A > B > {S, Sib}, every
\* frame listening: S broadcasts it; top and Sib may have a handler for it.
InitChain ==
  /\ InitCommon
  /\ listening = Frames
  /\ \E H \in SUBSET {"top", "Sib"} : HANDLERS_REGISTERED_FRAME = Registered(H, "responseless")
  /\ HANDLERS_REGISTERED_BACKGROUND = NoHandlers

NextChain ==
  \/ /\ msgs = <<>>
     /\ sendAwait("S", Broadcast, "ping", PlainBm, FALSE)
  \/ WindowSteps
  \/ FrameSteps

SpecChain == InitChain /\ [][NextChain]_vars

\* One envelope followed up the parent line top > A > B > S: S broadcasts it,
\* or sends it to an ancestor with sendToParentWindow; top and B may have a
\* handler for it.  Every task of an event loop that can run eventually runs.
InitUp ==
  /\ InitCommon
  /\ listening = {"top", "A", "B", "S"}
  /\ \E H \in SUBSET {"top", "B"} : HANDLERS_REGISTERED_FRAME = Registered(H, "responseless")
  /\ HANDLERS_REGISTERED_BACKGROUND = NoHandlers

UpSteps ==
  \/ WindowSteps
  \/ FrameSteps

NextUp ==
  \/ /\ msgs = <<>>
     /\ sendAwait("S", Broadcast, "ping", PlainBm, FALSE)
  \/ /\ msgs = <<>>
     /\ \E anc \in {"A", "top"} : sendToParentWindow("S", anc, "ping", PlainBm, Undefined, Undefined)
  \/ UpSteps

SpecUp == InitUp /\ [][NextUp]_vars /\ WF_vars(UpSteps)

\* One envelope sent from S to an ancestor with sendToParentWindow, on the
\* window channel only; top, A and B may have a handler for it.  Every task of
\* an event loop that can run eventually runs.
InitAncestor ==
  /\ InitCommon
  /\ listening = {"top", "A", "B", "S"}
  /\ \E H \in SUBSET {"top", "A", "B"} : HANDLERS_REGISTERED_FRAME = Registered(H, "responseless")
  /\ HANDLERS_REGISTERED_BACKGROUND = NoHandlers

AncestorSteps ==
  \/ WindowSteps
  \/ \E t \in DOMAIN tasks : sendRawResponse(t)

NextAncestor ==
  \/ \E anc \in {"A", "top"} : sendToParentWindow("S", anc, "ping", PlainBm, Undefined, Undefined)
  \/ AncestorSteps

SpecAncestor == InitAncestor /\ [][NextAncestor]_vars /\ WF_vars(AncestorSteps)

\* A call from frame S to the background page that may get no reply: the
\* background page may not be listening yet, may have no handler for the name,
\* or the platform may fail to hand the envelope over.
InitNoReply ==
  /\ InitCommon
  /\ listening \in {{"S"}, {"S", "B"}, {"S", "B", Bg}}
  /\ HANDLERS_REGISTERED_FRAME = Registered({"B"}, "respondObj")
  /\ \E h \in {"respondObj", "throwErr", Undefined} :
       HANDLERS_REGISTERED_BACKGROUND = [n \in Names |-> IF n = "ping" THEN h ELSE Undefined]

NextNoReply ==
  \/ \E awaitRes \in BOOLEAN : sendAwait("S", Undefined, "ping", PlainBm, awaitRes)
  \/ \E awaitRes \in BOOLEAN, failure \in RuntimeFailures :
       sendAwaitRuntimeFailure("S", Undefined, "ping", PlainBm, awaitRes, failure)
  \/ \E x \in Frames, uid \in 1 .. Len(msgs) : listen(x, uid)
  \/ \E uid \in 1 .. Len(msgs) : bgListen(uid)
  \/ \E t \in DOMAIN tasks : sendRawResponse(t)
  \/ \E uid \in 1 .. Len(msgs) : ReplyArrives(uid)
  \/ \E uid \in 1 .. Len(msgs) : PortClosed(uid)
  \/ \E uid \in 1 .. Len(msgs) :
       \E lastError \in {NoReceiverText, NotClonedText, UnknownErrorText} : SendMessageFails(uid, lastError)

SpecNoReply == InitNoReply /\ [][NextNoReply]_vars

\* One call of "ping" to the background page, made by frame S through
\* chrome.runtime or by the background page itself, or one call of "other",
\* for which nobody has a handler, from S to frame B.
InitBypass ==
  /\ InitCommon
  /\ listening = {"S", "B", Bg}
  /\ HANDLERS_REGISTERED_FRAME = Registered({"B"}, "respondObj")
  /\ \E h \in HandlerIds \cup {Undefined} :
       HANDLERS_REGISTERED_BACKGROUND = [n \in Names |-> IF n = "ping" THEN h ELSE Undefined]

NextBypass ==
  \/ \E bm \in {PlainBm, BufBm}, awaitRes \in BOOLEAN : sendAwaitBypass("ping", bm, awaitRes)
  \/ \E t \in DOMAIN tasks : BypassSettles(t)
  \/ SendBg
  \/ \E awaitRes \in BOOLEAN : sendAwait("S", "B", "other", PlainBm, awaitRes)
  \/ BgSteps
  \/ WindowSteps

SpecBypass == InitBypass /\ [][NextBypass]_vars

\* The registries of frame B and of the background page while handlers are
\* registered and frame S sends "ping" to B or to the background page.  The
\* frame registry starts with the handlers every frame has from the start
\* (set_css, add_class, remove_class: "other"), the background registry empty.
InitialFrameHandlers == [n \in Names |-> IF n = "other" THEN "responseless" ELSE Undefined]
InitRegistry ==
  /\ InitCommon
  /\ listening = {"S", "B", Bg}
  /\ HANDLERS_REGISTERED_FRAME = [f \in Frames |-> InitialFrameHandlers]
  /\ HANDLERS_REGISTERED_BACKGROUND = NoHandlers

NextRegistry ==
  \/ \E n \in Names, h \in {"respondObj", "responseless"} : addListener("B", n, h)
  \/ \E n \in Names, h \in {"respondObj", "responseless"} : bgAddListener(n, h)
  \/ /\ msgs = <<>>
     /\ \E dest \in {"B", Undefined} : sendAwait("S", dest, "ping", PlainBm, FALSE)
  \/ \E x \in Frames, uid \in 1 .. Len(msgs) : listen(x, uid)
  \/ \E uid \in 1 .. Len(msgs) : bgListen(uid)
  \/ \E t \in DOMAIN tasks : sendRawResponse(t)
  \/ \E uid \in 1 .. Len(msgs) : ReplyArrives(uid)
  \/ \E uid \in 1 .. Len(msgs) : PortClosed(uid)
  \/ WindowSteps

SpecRegistry == InitRegistry /\ [][NextRegistry]_vars

\* The destination filter: frames S, B and A listen and each has a handler for
\* "ping"; S sends one "ping" to B, to A, to everybody or to the background page.
InitFilter ==
  /\ InitCommon
  /\ listening = {"S", "B", "A"}
  /\ HANDLERS_REGISTERED_FRAME = Registered(listening, "respondObj")
  /\ HANDLERS_REGISTERED_BACKGROUND = NoHandlers

NextFilter ==
  \/ /\ msgs = <<>>
     /\ \E dest \in {"B", "A", Broadcast, Undefined}, awaitRes \in BOOLEAN :
          sendAwait("S", dest, "ping", PlainBm, awaitRes)
  \/ WindowSteps
  \/ FrameSteps
  \/ \E uid \in 1 .. Len(msgs) : PortClosed(uid)

SpecFilter == InitFilter /\ [][NextFilter]_vars

\* An awaited call from frame S that gets no reply object, to the background
\* page or to frame B, which is not listening: nobody may be in reach, the
\* listeners in reach (frame Sib, the background page) may all decline, or the
\* platform may fail to hand the envelope over.
InitMalformed ==
  /\ InitCommon
  /\ listening \in {{"S"}, {"S", "Sib"}, {"S", "Sib", Bg}}
  /\ HANDLERS_REGISTERED_FRAME = Registered({"Sib"}, "respondObj")
  /\ \E h \in {"respondObj", Undefined} :
       HANDLERS_REGISTERED_BACKGROUND = [n \in Names |-> IF n = "ping" THEN h ELSE Undefined]

NextMalformed ==
  \/ \E dest \in {Undefined, "B"}, awaitRes \in BOOLEAN : sendAwait("S", dest, "ping", PlainBm, awaitRes)
  \/ \E uid \in encrypting : EncryptDone(uid)
  \/ \E f \in Frames : \E e \in DOMAIN winq[f] : listenForWindowMessages(f, e)
  \/ \E x \in Frames, uid \in 1 .. Len(msgs) : listen(x, uid)
  \/ \E uid \in 1 .. Len(msgs) : bgListen(uid)
  \/ \E t \in DOMAIN tasks : sendRawResponse(t)
  \/ \E uid \in 1 .. Len(msgs) : ReplyArrives(uid)
  \/ \E uid \in 1 .. Len(msgs) : PortClosed(uid)
  \/ \E uid \in 1 .. Len(msgs) :
       \E lastError \in {NoReceiverText, NotClonedText, UnknownErrorText} : SendMessageFails(uid, lastError)

SpecMalformed == InitMalformed /\ [][NextMalformed]_vars

\* Responding to a caller that may be gone: frame S makes an awaited call of
\* "ping" to frame B or to the background page, both of which have a handler
\* for it, and the page of S may be closed before the response is sent.
InitRespond ==
  /\ InitCommon
  /\ listening = {"S", "B", Bg}
  /\ \E h \in {"respondObj", "respondBuf", "throwErr"} :
       /\ HANDLERS_REGISTERED_FRAME = Registered({"B"}, h)
       /\ HANDLERS_REGISTERED_BACKGROUND = [n \in Names |-> IF n = "ping" THEN h ELSE Undefined]

NextRespond ==
  \/ \E dest \in {"B", Undefined} : sendAwait("S", dest, "ping", PlainBm, TRUE)
  \/ \E uid \in 1 .. Len(msgs) : PageClosed(uid)
  \/ \E x \in Frames, uid \in 1 .. Len(msgs) : listen(x, uid)
  \/ \E uid \in 1 .. Len(msgs) : bgListen(uid)
  \/ \E t \in DOMAIN tasks : sendRawResponse(t)
  \/ \E uid \in 1 .. Len(msgs) : ReplyArrives(uid)
  \/ \E t \in DOMAIN tasks : ReplyConsume(t)
  \/ WindowSteps

SpecRespond == InitRespond /\ [][NextRespond]_vars

\* Fire-and-forget sends: frame S sends "ping" to the background page or to
\* frame B, with chrome.runtime working or failing, and the background page
\* sends "ping" to itself; the background page has any handler, or none.
NextCatch ==
  \/ \E bm \in {PlainBm, BufBm} : sendAwaitBypass("ping", bm, FALSE)
  \/ \E t \in DOMAIN tasks : BypassSettles(t)
  \/ /\ msgs = <<>>
     /\ \E dest \in {Undefined, "B"} : sendAwait("S", dest, "ping", PlainBm, FALSE)
  \/ \E failure \in RuntimeFailures : sendAwaitRuntimeFailure("S", Undefined, "ping", PlainBm, FALSE, failure)
  \/ \E uid \in 1 .. Len(msgs) : sendCatchReportErr(uid)
  \/ \E x \in Frames, uid \in 1 .. Len(msgs) : listen(x, uid)
  \/ \E uid \in 1 .. Len(msgs) : bgListen(uid)
  \/ \E t \in DOMAIN tasks : sendRawResponse(t)
  \/ \E uid \in 1 .. Len(msgs) : ReplyArrives(uid)
  \/ \E uid \in 1 .. Len(msgs) : PortClosed(uid)
  \/ WindowSteps

SpecCatch == InitBypass /\ [][NextCatch]_vars

\* ------------------------------------------------------------- properties
Sent(u) == u \in 1 .. Len(msgs)

\* nothing of envelope u is in flight or still being worked on, in any context
Quiet(u) ==
  /\ u \notin encrypting
  /\ \A x \in Contexts : direct[x][u] = 0
  /\ \A f \in Frames : \A e \in DOMAIN winq[f] \cup DOMAIN decrypting[f] : e.uid # u
  /\ \A t \in DOMAIN tasks : t.uid # u

\* no copy of envelope u is in flight on the window channel
NoWindowCopy(u) ==
  /\ u \notin encrypting
  /\ \A f \in Frames : \A e \in DOMAIN winq[f] \cup DOMAIN decrypting[f] : e.uid # u

\* generic context x listens under the destination of envelope u and has a
\* handler registered for its name
Addressed(x, u) == msgs[u].to \in {x, Broadcast}
HasHandler(x, u) == x \in listening /\ HANDLERS_REGISTERED_FRAME[x][msgs[u].name] # Undefined

\* how often context c called objUrlConsume(url)
RECURSIVE Occurrences(_, _)
Occurrences(seq, c) ==
  IF seq = <<>> THEN 0
  ELSE (IF Head(seq) = c THEN 1 ELSE 0) + Occurrences(Tail(seq), c)
Range(seq) == {seq[i] : i \in 1 .. Len(seq)}

\* C1: an envelope delivered N >= 1 times, over any mix of the direct and the
\* window channel, to a generic context that listens under its destination
\* and has a handler for its name runs the handler exactly once: never more
\* than once, and once all its deliveries are worked off, once.
C1_ExactlyOnce ==
  \A x \in Frames, u \in UIDs :
    (Sent(u) /\ Addressed(x, u) /\ HasHandler(x, u) /\ hist.delivered[x][u] >= 1)
      => /\ hist.invoked[x][u] <= 1
         /\ Quiet(u) => hist.invoked[x][u] = 1

\* C2: the background page runs its handler at most once per envelope id,
\* however often the envelope is delivered to bgListen.
C2_BgDedup == \A u \in UIDs : hist.invoked[Bg][u] <= 1

\* C3: in one context, objUrlConsume is attempted at most once for each
\* object URL, however often the envelope that carries it is delivered there.
C3_OneAttemptPerContext ==
  \A url \in 1 .. Len(blobStore), c \in Contexts : Occurrences(blobStore[url].readers, c) <= 1

\* C4: over all contexts that receive an envelope, at most one of them ever
\* attempts to consume an object URL it carries.
C4_SingleReader ==
  \A url \in 1 .. Len(blobStore) : Cardinality(Range(blobStore[url].readers)) <= 1

RECURSIVE Up(_, _)
Up(f, n) == IF n = 0 THEN f ELSE Parent[Up(f, n - 1)]
Ancestors(f) == {Up(f, n) : n \in 1 .. Cardinality(Frames)} \ {f}
Depth(f) == Cardinality(Ancestors(f))
\* the frames strictly between f and its ancestor anc
Between(f, anc) == Ancestors(f) \ (Ancestors(anc) \cup {anc})

\* C6: a 'broadcast' envelope sent from the frame three levels deep
\* (top > A > B > S) is dispatched exactly once at the top window and at the
\* sibling frame, wherever these have a handler for its name: once nothing of
\* the envelope is left in flight, each of them has run its handler once.
C6_BroadcastReach ==
  \A u \in UIDs :
    (Sent(u) /\ msgs[u].sender = "S" /\ msgs[u].to = Broadcast /\ Quiet(u))
      => \A x \in {"top", "Sib"} : HasHandler(x, u) => hist.invoked[x][u] = 1

\* C7: an envelope sent with sendToParentWindow and addressed to an ancestor
\* two or more levels above the sender is eventually dispatched at that
\* ancestor (once), when the frames in between run the window listener and
\* have no handler for its name.
C7_AncestorReach ==
  \A u \in UIDs : \A anc \in Frames :
    (/\ Sent(u)
     /\ msgs[u].channel = "sendToParentWindow"
     /\ msgs[u].to = anc
     /\ anc \in Ancestors(msgs[u].sender)
     /\ Between(msgs[u].sender, anc) # {}
     /\ HasHandler(anc, u)
     /\ \A f \in Between(msgs[u].sender, anc) : f \in listening /\ ~HasHandler(f, u))
      ~> (hist.invoked[anc][u] = 1)

C7_Witness ==
  \E u \in UIDs :
    /\ Sent(u)
    /\ msgs[u].channel = "sendToParentWindow"
    /\ msgs[u].to = "top"
    /\ ~HasHandler("A", u) /\ ~HasHandler("B", u)
    /\ hist.forwarded["B"][u] >= 1
    /\ hist.forwarded["A"][u] >= 1
    /\ hist.invoked["top"][u] = 1

\* C8: a context whose handler was invoked for an envelope id never calls
\* sendUpParentLine for that id from its window listener, also when several
\* copies of the envelope interleave at the decrypt step.
C8_HandledNoForward ==
  \A f \in Frames, u \in UIDs : ~(hist.invoked[f][u] > 0 /\ hist.forwarded[f][u] > 0)

\* the copies that can arrive at frame f from below on the line from sender s
\* up: the sender posts Depth(s) copies, and every copy a frame receives makes
\* it post at most Depth(frame) copies
RECURSIVE Arrive(_, _)
Arrive(s, f) ==
  LET below == CHOOSE c \in Ancestors(s) \cup {s} : c # f /\ Parent[c] = f
  IN IF below = s THEN Depth(s) ELSE Arrive(s, below) * Depth(below)
RECURSIVE SumArrive(_, _)
SumArrive(s, fs) ==
  IF fs = {} THEN 0
  ELSE LET f == CHOOSE x \in fs : TRUE IN Arrive(s, f) + SumArrive(s, fs \ {f})
\* all postMessage calls an envelope sent in frame s can cause: to the children
\* of s, to s itself, and up the line
PostBound(s) == Cardinality(ChildFramesWithExtensionOrigin(s)) + 1 + SumArrive(s, Ancestors(s))

\* C9: an envelope sent on the window channel causes a bounded number of
\* postMessage calls, the top window never forwards a copy, and eventually no
\* copy of the envelope is in flight any more.
C9_PropagationTerminates ==
  /\ [](\A u \in UIDs : Sent(u) =>
          /\ hist.posted[u] <= PostBound(msgs[u].sender)
          /\ hist.fwdPosts["top"][u] = 0)
  /\ \A u \in UIDs : Sent(u) ~> [](NoWindowCopy(u))

C9_Witness ==
  \E u \in UIDs :
    /\ Sent(u)
    /\ NoWindowCopy(u)
    /\ hist.forwarded["B"][u] >= 2
    /\ hist.forwarded["A"][u] >= 2
    /\ hist.forwarded["top"][u] >= 1
    /\ hist.posted[u] >= PostBound(msgs[u].sender) - 1

\* C10: an awaited call sendAwait(undefined, n, payload, true) from a generic
\* context, with a handler registered for n in the background registry that
\* resolves with v, is never rejected, and once the reply has been worked off
\* it is resolved with v.
C10_AwaitedCall ==
  \A u \in UIDs :
    (/\ Sent(u)
     /\ msgs[u].awaitRes
     /\ msgs[u].to = Null
     /\ msgs[u].sender \in Frames
     /\ HANDLERS_REGISTERED_BACKGROUND[msgs[u].name] # Undefined
     /\ Behaviour(HANDLERS_REGISTERED_BACKGROUND[msgs[u].name]).ok)
      => /\ promise[u].state # "rejected"
         /\ (Quiet(u) /\ (port[u].reply.set => port[u].called))
              => /\ promise[u].state = "resolved"
                 /\ promise[u].value = Behaviour(HANDLERS_REGISTERED_BACKGROUND[msgs[u].name]).res

C10_Witness ==
  \E u \in UIDs :
    /\ Sent(u)
    /\ msgs[u].awaitRes
    /\ msgs[u].to = Null
    /\ HANDLERS_REGISTERED_BACKGROUND[msgs[u].name] = "respondBuf"
    /\ msgs[u].objUrls # NoObjUrls
    /\ promise[u].state = "resolved"
    /\ promise[u].value = Obj(ChunkObj)

\* the handler the background page has for the name of envelope u
BgHandler(u) == HANDLERS_REGISTERED_BACKGROUND[msgs[u].name]
\* an awaited call to the background page from a generic context
AwaitedBgCall(u) == Sent(u) /\ msgs[u].awaitRes /\ msgs[u].to = Null /\ msgs[u].sender \in Frames
\* the reply callback of envelope u has run and nothing is left to do for it
Answered(u) == Quiet(u) /\ port[u].called

\* C11: for an awaited call on the direct channel the promise resolves with
\* the handler's result when the handler succeeded and rejects with
\* jsonToErr of the reply's exception when the handler failed; it never
\* resolves when the reply carries an exception and never rejects when the
\* handler succeeded, and it is settled once the reply has been worked off.
C11_ResponseCorrelation ==
  \A u \in UIDs :
    (AwaitedBgCall(u) /\ BgHandler(u) # Undefined)
      => LET b == Behaviour(BgHandler(u))
             r == port[u].reply
         IN /\ b.ok => /\ promise[u].state # "rejected"
                       /\ promise[u].state = "resolved" => promise[u].value = b.res
            /\ ~b.ok => /\ promise[u].state # "resolved"
                        /\ promise[u].state = "rejected"
                             => /\ r.set /\ r.exception # NoException
                                /\ promise[u].err = jsonToErr(r.exception, msgs[u].name)
                                /\ promise[u].err.ctor = b.err.ctor
            /\ (r.set /\ r.exception # NoException) => promise[u].state # "resolved"
            /\ Answered(u) => promise[u].state # "pending"

C11_Witness ==
  \E u \in UIDs :
    /\ AwaitedBgCall(u)
    /\ BgHandler(u) = "throwErr"
    /\ Answered(u)
    /\ promise[u].state = "rejected"
    /\ promise[u].err = PlainErr(<<"BrowserMsg(", "ping", ") ", "boom">>)

\* C12: when the handler fails with an AjaxErr, the awaiting caller's promise
\* rejects with an AjaxErr whose status, url, responseText and statusText are
\* those of the original error and whose message contains the message name.
C12_ErrorFidelity ==
  \A u \in UIDs :
    (AwaitedBgCall(u) /\ BgHandler(u) # Undefined /\ Behaviour(BgHandler(u)).err.ctor = "AjaxErr")
      => LET e == Behaviour(BgHandler(u)).err
         IN /\ promise[u].state # "resolved"
            /\ Answered(u) => promise[u].state = "rejected"
            /\ promise[u].state = "rejected"
                 => /\ promise[u].err.ctor = "AjaxErr"
                    /\ promise[u].err.status = e.status
                    /\ promise[u].err.url = e.url
                    /\ promise[u].err.responseText = e.responseText
                    /\ promise[u].err.statusText = e.statusText
                    /\ \E i \in 1 .. Len(promise[u].err.message) :
                         promise[u].err.message[i] = msgs[u].name

C12_Witness ==
  \E u \in UIDs :
    /\ AwaitedBgCall(u)
    /\ BgHandler(u) = "throwAjax"
    /\ promise[u].state = "rejected"
    /\ promise[u].err.status = 404
    /\ promise[u].err.responseText = "not found"

\* C13: an awaited call to the background page that gets no reply rejects
\* with a BgNotReadyErr when the platform's failure text is "Could not
\* establish connection. Receiving end does not exist." or "The message port
\* closed before a response was received.", and with a plain Error, not a
\* BgNotReadyErr, when it is "The object could not be cloned."
C13_TransientVsPermanent ==
  \A u \in UIDs :
    (AwaitedBgCall(u) /\ port[u].called /\ ~port[u].reply.set)
      => /\ promise[u].state = "rejected"
         /\ port[u].lastError \in {NoReceiverText, PortClosedText} => promise[u].err.ctor = "BgNotReadyErr"
         /\ port[u].lastError = NotClonedText => promise[u].err.ctor = "Error"

C13_Witness ==
  \E u \in UIDs :
    /\ AwaitedBgCall(u)
    /\ port[u].called
    /\ ~port[u].reply.set
    /\ port[u].lastError = NotClonedText
    /\ promise[u].state = "rejected"
    /\ promise[u].err.ctor = "Error"

\* the awaited call u has ended in a failure: chrome.runtime failed the
\* caller, or the callback ran with no reply or with a reply carrying an exception
EndedInFailure(u) ==
  \/ port[u].runtime # "ok"
  \/ port[u].called /\ (~port[u].reply.set \/ port[u].reply.exception # NoException)

\* C14: an awaited call that ends in a transport failure, a protocol
\* violation or a handler failure is settled as a rejected promise once
\* nothing more can happen for it: it is never left pending and never resolved.
C14_AwaitedFailuresReject ==
  \A u \in UIDs :
    (Sent(u) /\ msgs[u].awaitRes /\ msgs[u].sender \in Frames /\ EndedInFailure(u) /\ Quiet(u))
      => promise[u].state = "rejected"

\* a remote handler is at work on envelope u: its task has been started in a
\* context other than the sender and has not responded yet
HandlerAtWork(u) == \E t \in DOMAIN tasks : t.uid = u /\ t.via = "direct" /\ t.ctx # msgs[u].sender

\* C15: a send with awaitRes = false does not wait for the handler: by the
\* time the envelope has been delivered and a remote handler is at work on it,
\* the promise of the send is already resolved.
C15_ForgetDoesNotWait ==
  \A u \in UIDs :
    (Sent(u) /\ ~msgs[u].awaitRes /\ msgs[u].sender \in Frames /\ HandlerAtWork(u))
      => promise[u].state = "resolved"

\* the receiver of envelope u has no handler registered for its name
Unhandled(u) ==
  IF msgs[u].to = Null THEN BgHandler(u) = Undefined
  ELSE HANDLERS_REGISTERED_FRAME[msgs[u].to][msgs[u].name] = Undefined

\* C16: sendAwait with awaitRes = false for a name that has no handler at the
\* receiver is never rejected, whether a generic context calls the background
\* page, a generic context calls a generic context, or the background page
\* calls itself.
C16_ForgetUnhandled ==
  \A u \in UIDs :
    (Sent(u) /\ ~msgs[u].awaitRes /\ Unhandled(u)) => promise[u].state # "rejected"

\* what the caller of an awaited call gets through the transport for the
\* handler h of the background page: sendRawResponse's reply, or none when
\* there is no handler, given to processRawMsgResponse
TransportOutcome(m, h) ==
  LET b == Behaviour(h)
      enc == replaceBufWithObjUrlInplace(b.res, <<>>)
      r == IF h = Undefined THEN NoReply
           ELSE IF b.ok THEN OkResponse(enc.v, enc.objUrls) ELSE ErrResponse(b.err)
      out == processRawMsgResponse(m, r, PortClosedText)
  IN IF out.do = "reject" THEN [state |-> "rejected", value |-> UndefinedValue, err |-> out.err]
     ELSE [state |-> "resolved", value |-> IF out.do = "decode" THEN b.res ELSE out.value, err |-> NoErr]

\* C17: an awaited call the background page makes to itself settles as the
\* same call made through the transport does: the same value on success, the
\* same error (kind, message prefixed with the message name) on a handler
\* failure, the same outcome with no handler registered.
C17_BypassEquivalence ==
  \A u \in UIDs :
    (Sent(u) /\ msgs[u].channel = "bypass" /\ msgs[u].awaitRes /\ promise[u].state # "pending")
      => promise[u] = TransportOutcome(msgs[u], BgHandler(u))

\* C18: an envelope whose name has no entry in the background registry is
\* ignored by bgListen: no handler is invoked, no object URL is consumed by
\* the background page, no task is started there, and no reply, neither a
\* result nor an error, is sent.
C18_UnknownIgnored ==
  \A u \in UIDs :
    (Sent(u) /\ msgs[u].channel = "sendRaw" /\ BgHandler(u) = Undefined)
      => /\ hist.invoked[Bg][u] = 0
         /\ \A t \in DOMAIN tasks : ~(t.uid = u /\ t.ctx = Bg)
         /\ \A f \in DOMAIN msgs[u].objUrls :
              Occurrences(blobStore[msgs[u].objUrls[f]].readers, Bg) = 0
         /\ msgs[u].to = Null => ~port[u].reply.set /\ port[u].keep = 0

C18_Witness ==
  \E u \in UIDs :
    /\ Sent(u)
    /\ BgHandler(u) = Undefined
    /\ msgs[u].objUrls # NoObjUrls
    /\ hist.delivered[Bg][u] >= 1
    /\ Quiet(u)
    /\ port[u].called

\* the handler the log of registrations gives context ctx for name n: that of
\* the last entry for ctx and n, or the initial one when there is none
RECURSIVE LastRegistered(_, _, _, _)
LastRegistered(log, ctx, n, initial) ==
  IF log = <<>> THEN initial
  ELSE LET e == log[Len(log)]
       IN IF e.ctx = ctx /\ e.name = n THEN e.handler
          ELSE LastRegistered(SubSeq(log, 1, Len(log) - 1), ctx, n, initial)
InitialHandler(ctx, n) == IF ctx = Bg THEN NoHandlers[n] ELSE InitialFrameHandlers[n]

\* C19: after any sequence of addListener / bgAddListener calls every entry of
\* every registry is the handler of the most recent registration of that name
\* in that registry (the initial entry when there was none: a registration
\* changes no other name and no other registry), and a listener that
\* dispatches an envelope starts exactly that handler.
C19_LastWriterWins ==
  /\ [](/\ \A f \in Frames, n \in Names :
             HANDLERS_REGISTERED_FRAME[f][n] = LastRegistered(hist.registered, f, n, InitialHandler(f, n))
        /\ \A n \in Names :
             HANDLERS_REGISTERED_BACKGROUND[n] = LastRegistered(hist.registered, Bg, n, InitialHandler(Bg, n)))
  /\ [][\A t \in DOMAIN tasks' \ DOMAIN tasks :
          t.h = LastRegistered(hist.registered, t.ctx, msgs[t.uid].name, InitialHandler(t.ctx, msgs[t.uid].name))]_vars

\* C21: when a generic context sends an envelope with a destination, its task
\* posts the encrypted envelope once to every child iframe of the extension
\* origin, once to its own window, and once to each ancestor window on the
\* parent chain up to and including the top window, and to no other window.
C21_OutboundFanOut ==
  \A u \in UIDs :
    (Sent(u) /\ msgs[u].channel = "sendRaw" /\ msgs[u].sender \in Frames /\ msgs[u].to # Null
       /\ u \notin encrypting)
      => \A f \in Frames :
           hist.sentTo[u][f] =
             IF f \in ChildFramesWithExtensionOrigin(msgs[u].sender)
                     \cup {msgs[u].sender} \cup Ancestors(msgs[u].sender)
             THEN 1 ELSE 0

\* In this step the window listener of frame f took event e off its queue and
\* ended without awaiting decrypt, or resumed from decrypt for e.
ListenerTook(f, e) ==
  /\ BagCount(winq'[f], e) < BagCount(winq[f], e)
  /\ BagCount(decrypting'[f], e) <= BagCount(decrypting[f], e)
ListenerResumed(f, e) == BagCount(decrypting'[f], e) < BagCount(decrypting[f], e)
\* In this step a handler task was started in frame f for envelope u.
DispatchedNow(f, u) ==
  \E t \in DOMAIN tasks' : t.ctx = f /\ t.uid = u /\ BagCount(tasks', t) > BagCount(tasks, t)

\* C22: a run of the window listener that ends without dispatching the
\* envelope locally (destination does not match, or no handler for the name),
\* for an envelope not yet in the ledger when the listener took it: with the
\* propagation flag the context adds the id to its ledger and forwards the
\* envelope up the parent chain; without the flag the envelope is neither
\* forwarded nor marked seen.
C22_InboundForward ==
  [][\A f \in Frames : \A e \in DOMAIN winq[f] \cup DOMAIN decrypting[f] :
       ((\/ ListenerTook(f, e) /\ e.uid \notin processed[f] /\ TrustedOrigin(e.origin)
         \/ ListenerResumed(f, e))
        /\ ~DispatchedNow(f, e.uid))
         => IF e.propagateToParent
            THEN /\ e.uid \in processed'[f]
                 /\ hist'.forwarded[f][e.uid] = hist.forwarded[f][e.uid] + 1
                 /\ hist'.fwdPosts[f][e.uid] = hist.fwdPosts[f][e.uid] + UpCount(f)
            ELSE /\ hist'.forwarded[f][e.uid] = hist.forwarded[f][e.uid]
                 /\ processed'[f] = processed[f]]_vars

\* C23: a generic context listening as dest invokes a handler only for
\* envelopes whose destination is dest or 'broadcast', on both channels: an
\* envelope addressed to another context, or with a null destination, never
\* starts or invokes a handler in this context and is never decrypted by it.
C23_DestinationFilter ==
  \A x \in Frames, u \in UIDs :
    (Sent(u) /\ msgs[u].to \notin {x, Broadcast})
      => /\ hist.invoked[x][u] = 0
         /\ hist.delivered[x][u] = 0
         /\ \A t \in DOMAIN tasks : ~(t.ctx = x /\ t.uid = u /\ t.via \in {"direct", "window"})
         /\ \A e \in DOMAIN decrypting[x] : e.uid # u

C23_Witness ==
  \E u \in UIDs :
    /\ Sent(u)
    /\ msgs[u].to = "A"
    /\ HasHandler("B", u)
    /\ port[u].ran /\ direct["B"][u] = 0
    /\ hist.forwarded["B"][u] >= 1
    /\ hist.invoked["B"][u] = 0
    /\ hist.invoked["A"][u] = 1

\* the failure classification of a call of name that got no reply, by the
\* platform's failure text
Classified(name, lastError) ==
  IF lastError \in {NoReceiverText, PortClosedText}
  THEN BgNotReadyErr(<<"BgNotReadyErr: BrowserMsg.sendAwait(", name, ") failed with lastError: ", lastError>>)
  ELSE IF lastError = NotClonedText
  THEN PlainErr(<<"BrowserMsg.sendAwait(", name, ") failed with lastError: ", lastError>>)
  ELSE PlainErr(<<"BrowserMsg.sendAwait(", name, ") failed with unknown lastError: ", lastError>>)

\* C24: an awaited call on the direct channel whose callback runs without a
\* well-formed response object is rejected, for any destination, with the
\* error of the failure classification: a BgNotReadyErr for 'receiving end
\* does not exist' and 'message port closed', a plain Error for 'could not be
\* cloned', a generic plain Error otherwise.
C24_MalformedReplyClassified ==
  \A u \in UIDs :
    (Sent(u) /\ msgs[u].awaitRes /\ msgs[u].sender \in Frames /\ port[u].called /\ ~port[u].reply.set)
      => /\ promise[u].state = "rejected"
         /\ promise[u].err = Classified(msgs[u].name, port[u].lastError)

\* the handler invocations of context c for envelope u whose promise has not settled yet
RunningTasks(c, u) ==
  BagSize([t \in {x \in DOMAIN tasks : x.ctx = c /\ x.uid = u /\ x.stage = "run"} |-> tasks[t]])

\* C25: every response sendRawResponse produces has one meaningful member:
\* either its exception is undefined, or its exception is defined, its result
\* undefined and its objUrls empty; and every handler invocation leads to
\* exactly one call of the respond callback, none while the handler's promise
\* is unsettled and one from then on.
C25_WellFormedResponse ==
  /\ \A r \in hist.responses :
       \/ r.exception = NoException
       \/ r.exception # NoException /\ r.result = UndefinedValue /\ r.objUrls = NoObjUrls
  /\ \A c \in Contexts, u \in UIDs :
       (Sent(u) /\ msgs[u].channel = "sendRaw")
         => hist.respondCalls[c][u] + RunningTasks(c, u) = hist.invoked[c][u]

BufFields(o) == {f \in Fields : o[f].k = "buf"}

\* C27: after replaceBufWithObjUrlInplace(payload) every top-level field that
\* held a byte buffer holds undefined and has one freshly created object URL
\* recorded under its name, which gives access to the bytes the field held;
\* the returned mapping has no other keys; every other top-level field is
\* unchanged, a buffer nested below the top level included; and no object URL
\* is recorded twice, in this or in another envelope.
C27_EncodeBinary ==
  \A u \in UIDs :
    (Sent(u) /\ msgs[u].channel = "sendRaw" /\ msgs[u].sender \in Frames)
      => LET before == hist.sentBm[u]
             after == msgs[u].bm.o
             urls == msgs[u].objUrls
         IN /\ DOMAIN urls = BufFields(before)
            /\ \A f \in BufFields(before) :
                 /\ after[f] = Undef
                 /\ urls[f] \in 1 .. Len(blobStore)
                 /\ blobStore[urls[f]].bytes = before[f].b
            /\ \A f \in Fields \ BufFields(before) : after[f] = before[f]
            /\ \A f, g \in DOMAIN urls : f # g => urls[f] # urls[g]
            /\ \A u2 \in UIDs \ {u} :
                 Sent(u2) => \A f \in DOMAIN urls, g \in DOMAIN msgs[u2].objUrls : urls[f] # msgs[u2].objUrls[g]

C27_Witness ==
  \E u \in UIDs :
    /\ Sent(u)
    /\ hist.sentBm[u]["f1"].k = "buf"
    /\ Len(hist.sentBm[u]["f1"].b) = MaxBufLen
    /\ hist.sentBm[u]["f2"].k = "nested"
    /\ msgs[u].bm.o["f1"] = Undef
    /\ msgs[u].bm.o["f2"] = hist.sentBm[u]["f2"]
    /\ DOMAIN msgs[u].objUrls = {"f1"}

\* C28: in every step each context's set of seen ids only grows, at most one
\* context's set changes, and it changes by an operation of that context alone;
\* so the first delivery of an envelope to a context that has a handler for it
\* starts that handler, whatever the other contexts have already seen.
C28_LedgerMonotonicPrivate ==
  [][/\ \A c \in Contexts : processed[c] \subseteq processed'[c]
     /\ \A c, d \in Contexts :
          (c # d /\ processed'[c] # processed[c]) => processed'[d] = processed[d]
     /\ \A x \in Frames, u \in UIDs :
          (/\ hist'.delivered[x][u] = 1
           /\ hist.delivered[x][u] = 0
           /\ HasHandler(x, u))
            => /\ DispatchedNow(x, u)
               /\ u \in processed'[x]]_vars

C28_Witness ==
  \E u \in UIDs :
    /\ Sent(u)
    /\ u \in processed["S"] /\ u \in processed["B"]
    /\ hist.invoked["S"][u] = 1
    /\ hist.invoked["B"][u] = 1
    /\ hist.delivered["B"][u] >= 2

\* the promise of call u is settled
Settled(u) == promise[u].state \in {"resolved", "rejected"}

\* C29: with several awaited calls of one context outstanding and their
\* replies arriving in any order, a settled promise is settled by the reply to
\* its own envelope: its callback has run, and its value or error is the one
\* the handler of its own name produced; a step settles at most one promise,
\* a settled promise never changes, and a callback that has run never runs
\* again.
C29_CorrelationUnderInterleaving ==
  /\ [](\A u \in UIDs :
         (AwaitedBgCall(u) /\ Settled(u))
           => LET b == Behaviour(BgHandler(u))
              IN /\ port[u].called
                 /\ port[u].reply.set
                 /\ IF b.ok
                    THEN promise[u].state = "resolved" /\ promise[u].value = b.res
                    ELSE /\ promise[u].state = "rejected"
                         /\ promise[u].err = jsonToErr(port[u].reply.exception, msgs[u].name)
                         /\ port[u].reply.exception = errToJson(b.err))
  /\ [][/\ \A u \in UIDs : Settled(u) => promise'[u] = promise[u]
        /\ \A u, v \in UIDs :
             (~Settled(u) /\ Settled(u)' /\ ~Settled(v) /\ Settled(v)') => u = v
        /\ \A u \in UIDs : port[u].called => port'[u].called /\ port'[u].reply = port[u].reply]_vars

C29_Witness ==
  \E u, v \in UIDs :
    /\ u < v
    /\ AwaitedBgCall(u) /\ AwaitedBgCall(v)
    /\ msgs[u].name = "ping" /\ msgs[v].name = "other"
    /\ BgHandler(v) = "throwErr"
    /\ port[u].reply.set /\ ~port[u].called /\ promise[u].state = "pending"
    /\ promise[v].state = "rejected"
    /\ promise[v].err = PlainErr(<<"BrowserMsg(", "other", ") ", "boom">>)

\* the 'message' events posted and not yet worked off, in any window
PostedEvents == UNION {DOMAIN winq[f] \cup DOMAIN decrypting[f] : f \in Frames}
\* what a script that listens to window messages without the key learns from
\* event e
Observable(e) == IF e.data.k = "ciphertext" THEN [e EXCEPT !.data = "ciphertext"] ELSE e
\* event e of a run that differs only in the payload of the envelope
WithPayload(e, bm) == [e EXCEPT !.data.of.bm = bm]

\* C30: every message the bus posts on the window channel (to child frames,
\* to the own window, to the parent, and when forwarding) carries the output
\* of SymmetricMessageEncryption.encrypt for its envelope, never the envelope
\* itself; its readable fields are uid, to and the propagation flag, and they
\* are the same whatever the payload of the envelope is.
C30_OnlyCiphertextOnWindow ==
  \A e \in PostedEvents :
    /\ Sent(e.uid)
    /\ e.data = encrypt(e.uid).data
    /\ e.data.k = "ciphertext"
    /\ e.to = msgs[e.uid].to
    /\ \A o \in Objects : Observable(WithPayload(e, Obj(o))) = Observable(e)

C30_Witness ==
  \E u \in UIDs :
    /\ Sent(u)
    /\ msgs[u].sender = "B"
    /\ msgs[u].objUrls # NoObjUrls
    /\ hist.forwarded["A"][u] >= 1
    /\ \E e \in DOMAIN winq["top"] : e.uid = u /\ e.propagateToParent /\ e.data.k = "ciphertext"
    /\ \E e \in DOMAIN winq["S"] : e.uid = u /\ ~e.propagateToParent /\ e.data.k = "ciphertext"
    /\ \E e \in DOMAIN winq["B"] \cup DOMAIN decrypting["B"] : e.uid = u /\ e.data.k = "ciphertext"

\* the handler tasks of frame f for envelope u that have not responded yet
HandlerTasks(f, u) ==
  BagSize([t \in {x \in DOMAIN tasks : x.ctx = f /\ x.uid = u /\ x.via \in {"direct", "window"}} |-> tasks[t]])

\* C31: when several copies of one encrypted envelope pass the ledger check
\* of a frame's window listener before any of them has finished decrypt, the
\* ledger check of handleMsg lets one of them through only: the frame starts
\* at most one handler task for the id, invokes the handler at most once, and
\* calls objUrlConsume at most once for each object URL of the envelope.
C31_DecryptRace ==
  \A f \in Frames, u \in UIDs :
    Sent(u)
      => /\ hist.invoked[f][u] <= 1
         /\ HandlerTasks(f, u) <= 1
         /\ hist.invoked[f][u] = 1 => \A t \in DOMAIN tasks : (t.ctx = f /\ t.uid = u) => t.stage # "decode"
         /\ \A k \in DOMAIN msgs[u].objUrls :
              Occurrences(blobStore[msgs[u].objUrls[k]].readers, f) <= 1

C31_Witness ==
  \E u \in UIDs :
    /\ Sent(u)
    /\ msgs[u].objUrls # NoObjUrls
    /\ hist.dups = 0
    /\ direct["B"][u] = 1
    /\ hist.delivered["B"][u] >= 2
    /\ hist.invoked["B"][u] = 1
    /\ \A k \in DOMAIN msgs[u].objUrls : blobStore[msgs[u].objUrls[k]].readers = <<"B">>

\* C32: the first run of handleMsg for an id in a generic context records the
\* id, whether or not the context has a handler for the name; and an id that
\* is in the ledger of a context that has neither invoked nor started a
\* handler for it is never dispatched there, also not when a handler for its
\* name is registered later and the envelope is delivered again.
C32_SeenWithoutHandler ==
  [][\A x \in Frames, u \in UIDs :
       /\ (hist.delivered[x][u] = 0 /\ hist'.delivered[x][u] = 1) => u \in processed'[x]
       /\ (u \in processed[x] /\ hist.invoked[x][u] = 0 /\ HandlerTasks(x, u) = 0)
            => /\ hist'.invoked[x][u] = 0
               /\ ~DispatchedNow(x, u)
               /\ u \in processed'[x]]_vars

C32_Witness ==
  \E u \in UIDs : \E i \in 1 .. Len(hist.registered) :
    /\ Sent(u)
    /\ hist.registered[i].ctx = "B"
    /\ hist.registered[i].name = msgs[u].name
    /\ hist.registered[i].delivered[u] = 1
    /\ HasHandler("B", u)
    /\ hist.delivered["B"][u] >= 2
    /\ u \in processed["B"]
    /\ hist.invoked["B"][u] = 0
    /\ HandlerTasks("B", u) = 0

\* C33: a generic context calls a respond callback at most once for an
\* envelope id, and only for the delivery that was dispatched: the calls made
\* and the handler tasks still to respond are never more than one together,
\* however many deliveries with a matching destination the context has taken.
C33_OneResponsePerContext ==
  \A x \in Frames, u \in UIDs :
    (Sent(u) /\ msgs[u].channel = "sendRaw")
      => /\ hist.respondCalls[x][u] <= 1
         /\ hist.respondCalls[x][u] + HandlerTasks(x, u) <= 1

\* the part of C33 about the deliveries that are not dispatched: a context
\* that has started no handler task for an id has called no respond callback
C33_UndispatchedSilent ==
  \A x \in Frames, u \in UIDs :
    (Sent(u) /\ hist.invoked[x][u] = 0) => hist.respondCalls[x][u] = 0

\* the envelopes sent as the answer to envelope u, which frame x handled
AnswersTo(u) == {v \in 1 .. Len(msgs) : v # u /\ msgs[v].channel = "sendRaw"}

\* C34: for an envelope sent with sendToParentWindow and dispatched by the
\* window listener of frame x, every call of the respond callback sends one
\* new envelope when the request has a responseName and a messageSender, and
\* nothing otherwise; the new envelope has an id of its own, the responseName
\* as its name, the messageSender as its destination, is not awaited, and its
\* payload is the handler's result (binary fields as object URLs), or
\* undefined when the handler threw: the exception itself is dropped.
C34_WindowResponseAsRequest ==
  \A u \in UIDs :
    (Sent(u) /\ msgs[u].channel = "sendToParentWindow")
      => LET m == msgs[u]
             x == m.to
             b == Behaviour(HANDLERS_REGISTERED_FRAME[x]["ping"])
             wanted == m.responseName # Undefined /\ m.messageSender # Undefined
         IN /\ Cardinality(AnswersTo(u)) = IF wanted THEN hist.respondCalls[x][u] ELSE 0
            /\ \A v \in AnswersTo(u) :
                 /\ msgs[v].name = m.responseName
                 /\ msgs[v].to = m.messageSender
                 /\ msgs[v].sender = x
                 /\ ~msgs[v].awaitRes
                 /\ msgs[v].responseName = Undefined
                 /\ IF b.ok
                    THEN /\ msgs[v].bm = replaceBufWithObjUrlInplace(b.res, <<>>).v
                         /\ DOMAIN msgs[v].objUrls = BufFields(b.res.o)
                         /\ \A k \in DOMAIN msgs[v].objUrls :
                              blobStore[msgs[v].objUrls[k]].bytes = b.res.o[k].b
                    ELSE msgs[v].bm = UndefinedValue /\ msgs[v].objUrls = NoObjUrls

C34_Witness ==
  /\ Len(msgs) = 2
  /\ msgs[1].channel = "sendToParentWindow"
  /\ msgs[1].responseName = "other" /\ msgs[1].messageSender = "S"
  /\ hist.invoked["B"][1] = 1
  /\ msgs[2].name = "other" /\ msgs[2].to = "S" /\ msgs[2].sender = "B"
  /\ DOMAIN msgs[2].objUrls = {"f1"}
  /\ hist.invoked["S"][2] = 1
  /\ hist.received["S"][2] = ChunkObj

\* a send of the background page to a named destination
FromBackground(u) == Sent(u) /\ msgs[u].sender = Bg /\ msgs[u].channel = "sendRaw"

\* C35: an envelope the background page sends to a named destination never
\* gets on the window channel and reaches no listener outside the active
\* tabs, the background page's own included; its promise is never rejected;
\* once resolved it holds undefined or a raw response as a listener passed it
\* to the respond callback, result, exception and objUrls untouched; and with
\* no active tab it stays pending.
C35_PrivilegedSend ==
  \A u \in UIDs :
    FromBackground(u)
      => /\ NoWindowCopy(u) /\ hist.posted[u] = 0
         /\ direct[Bg][u] = 0 /\ hist.delivered[Bg][u] = 0 /\ hist.invoked[Bg][u] = 0
         /\ MailTab \notin port[u].tabs
              => \A x \in Frames : direct[x][u] = 0 /\ hist.delivered[x][u] = 0
         /\ promise[u].state # "rejected"
         /\ promise[u].state = "resolved"
              => /\ port[u].called
                 /\ \/ promise[u].value = UndefinedValue
                    \/ /\ promise[u].value = RawValue(port[u].reply)
                       /\ port[u].reply \in hist.responses
         /\ promise[u].state = "resolved" <=> port[u].tabsDone # {}
         /\ port[u].tabs = {} => promise[u].state = "pending" /\ ~ENABLED tabsSendMessageCallback(u, MailTab)
                                   /\ ~ENABLED tabsSendMessageCallback(u, OtherTab)

C35_Witness ==
  \E u \in UIDs :
    /\ FromBackground(u)
    /\ msgs[u].awaitRes
    /\ msgs[u].objUrls # NoObjUrls
    /\ HANDLERS_REGISTERED_FRAME["B"]["ping"] = "throwErr"
    /\ hist.invoked["B"][u] = 1
    /\ port[u].tabs = Tabs /\ port[u].tabsDone = Tabs
    /\ promise[u].state = "resolved"
    /\ promise[u].value = RawValue(ErrResponse(PlainErr(<<"boom">>)))

C35_WitnessNoTab ==
  \E u \in UIDs :
    /\ FromBackground(u)
    /\ port[u].tabs = {}
    /\ promise[u].state = "pending"

\* C36: a run of the window listener of frame f on a message whose origin is
\* neither https://mail.google.com nor the extension origin, or whose id is in
\* the ledger of f, only takes the message off the queue: nothing awaits
\* decrypt for it, no handler task is started or invoked, no ledger changes,
\* nothing is forwarded or posted, nothing is sent or answered.
C36_UntrustedInert ==
  [][\A f \in Frames : \A e \in DOMAIN winq[f] :
       (/\ BagCount(winq[f], e) > 0
        /\ BagCount(winq'[f], e) < BagCount(winq[f], e)
        /\ (e.origin \notin {MailOrigin, ExtensionOrigin} \/ e.uid \in processed[f]))
         => /\ winq' = [winq EXCEPT ![f] = BagTake(@, e)]
            /\ decrypting' = decrypting
            /\ processed' = processed
            /\ tasks' = tasks
            /\ hist'.invoked = hist.invoked /\ hist'.delivered = hist.delivered
            /\ hist'.forwarded = hist.forwarded /\ hist'.posted = hist.posted
            /\ UNCHANGED <<msgs, blobStore, HANDLERS_REGISTERED_FRAME, HANDLERS_REGISTERED_BACKGROUND,
                            encrypting, direct, port, promise>>]_vars

C36_Witness ==
  \E u \in UIDs :
    /\ Sent(u)
    /\ msgs[u].to = "B"
    /\ HasHandler("B", u)
    /\ hist.untrusted["B"] = 1
    /\ u \notin processed["B"]
    /\ hist.delivered["B"][u] = 0
    /\ hist.forwarded["B"][u] = 0
    /\ decrypting["B"] = EmptyBag
    /\ \A e \in DOMAIN winq["B"] : BagCount(winq["B"], e) > 0 => TrustedOrigin(e.origin)

C19_Witness ==
  /\ Len(hist.registered) = 2
  /\ hist.registered[1].ctx = Bg /\ hist.registered[2].ctx = Bg
  /\ hist.registered[1].name = "ping" /\ hist.registered[2].name = "ping"
  /\ hist.registered[1].handler # hist.registered[2].handler
  /\ hist.invoked[Bg][1] = 1
  /\ \E t \in DOMAIN tasks : t.ctx = Bg /\ t.h = hist.registered[2].handler

\* ------------------------------------------------------------- GoogleOAuth
\* The url parameters of the auth window's answer are optional values:
\* <<>> when the parameter is missing, <<v>> when it is present.
Missing == <<>>

CheckedScopes == {"compose", "modify"}
ExpectedState == "expected"

\* What the surroundings of one newAuthPopup call can do.
\*   acctEmail, save, scopes  the arguments
\*   url, error               the fields of OAuth2.webAuthFlow's result
\*   scope, code, state       the parameters carried by that url
\*   tokens                   what the token endpoint answers: "throws", or the id_token
\*   email                    what parseIdToken finds: "throws", or the email claim
\*   store                    whether saving the tokens succeeds
\*   fes                      the external service step: "ok", "unreachable", "fails"
AuthInputs ==
  [acctEmail : {Undefined, "user@example.com"},
   save      : BOOLEAN,
   scopes    : SUBSET CheckedScopes,
   url       : {Undefined, "https://redirect"},
   error     : {Undefined, "access_denied"},
   scope     : {Missing} \cup {<<g>> : g \in SUBSET CheckedScopes},
   code      : {Missing, <<"">>, <<"4/code">>},
   state     : {Missing, <<ExpectedState>>, <<"forged">>},
   tokens    : {"throws", "", "idtoken"},
   email     : {"throws", "", "user@example.com"},
   store     : {"ok", "throws"},
   fes       : {"ok", "unreachable", "fails"}]

AuthRes(result, acctEmail, error, id_token) ==
  [result |-> result, acctEmail |-> acctEmail, error |-> error, id_token |-> id_token]

\* A value or the exception that took its place.
Returned(v) == [threw |-> FALSE, v |-> v]
Threw(e) == [threw |-> TRUE, v |-> e]

\* if (!x) on a string or undefined
Falsy(x) == x \in {Undefined, ""}

googleAuthGetTokens(i) ==
  IF i.tokens = "throws" THEN Threw("Error: token request failed") ELSE Returned(i.tokens)

parseIdToken(i) ==
  IF i.email = "throws" THEN Threw("Error: could not parse id_token") ELSE Returned(i.email)

retrieveAndSaveAuthToken(i) ==
  LET tokensObj == googleAuthGetTokens(i)
      claims == parseIdToken(i)
  IN  IF tokensObj.threw THEN tokensObj
      ELSE IF claims.threw THEN claims
      ELSE IF Falsy(claims.v) THEN Threw("Error: Missing email address in id_token")
      ELSE IF i.store = "throws" THEN Threw("Error: storage failed")
      ELSE Returned(tokensObj.v)

\* a state check that lets every state pass
StateMatchesAny(i) == i.state # Missing

\* receivedState === expectedState
StateMatches(i) == i.state[1] = ExpectedState

\* getAuthRes with the number of calls of the token endpoint it has made
getAuthResSteps(i) ==
  LET Denied(error) == AuthRes("Denied", i.acctEmail, error, Undefined)
      Before(r) == [res |-> r, tokenCalls |-> 0]
      After(r) == [res |-> r, tokenCalls |-> 1]
      tokens == IF i.save THEN retrieveAndSaveAuthToken(i) ELSE googleAuthGetTokens(i)
      claims == parseIdToken(i)
  IN  IF Falsy(i.url) THEN Before(Denied("Invalid response url"))
      ELSE IF ~Falsy(i.error) THEN Before(Denied(i.error))
      ELSE IF i.scope = Missing \/ i.state = Missing
           THEN Before(AuthRes("Error", i.acctEmail, "Could not parse URL returned from Google", Undefined))
      ELSE IF \E scopeToCheck \in CheckedScopes :
                scopeToCheck \in i.scopes /\ scopeToCheck \notin i.scope[1]
           THEN Before(Denied("Missing permissions"))
      ELSE IF i.code = Missing \/ Falsy(i.code[1])
           THEN Before(Denied("Google auth result was 'Success' but no auth code"))
      ELSE IF ~StateMatches(i)
           THEN Before(AuthRes("Error", i.acctEmail, "Wrong oauth CSRF token. Please try again.", Undefined))
      ELSE IF tokens.threw THEN After(Denied(tokens.v))
      ELSE IF claims.threw THEN After(Denied(claims.v))
      ELSE IF Falsy(claims.v) THEN After(Denied("Error: Missing email address in id_token"))
      ELSE After(AuthRes("Success", claims.v, Undefined, tokens.v))

getAuthRes(i) == getAuthResSteps(i).res

\* newAuthPopup handing back whatever getAuthRes found.
newAuthPopupUnchecked(i, authRes) == authRes

\* The part of newAuthPopup after getAuthRes has answered.
newAuthPopup(i, authRes) ==
  IF authRes.result = "Success"
  THEN IF Falsy(authRes.id_token)
       THEN AuthRes("Error", authRes.acctEmail, "Grant was successful but missing id_token", Undefined)
       ELSE IF Falsy(authRes.acctEmail)
       THEN AuthRes("Error", authRes.acctEmail, "Grant was successful but missing acctEmail", Undefined)
       ELSE IF i.fes = "unreachable"
       THEN AuthRes("Error", authRes.acctEmail,
                    "Cannot reach your company's FlowCrypt External Service (FES). Contact your Help Desk when unsure.",
                    Undefined)
       ELSE IF i.fes = "fails"
       THEN AuthRes("Error", authRes.acctEmail, "Grant successful but error accessing fc account", Undefined)
       ELSE authRes
  ELSE authRes

BusUnchanged ==
  UNCHANGED <<msgs, blobStore, HANDLERS_REGISTERED_FRAME, HANDLERS_REGISTERED_BACKGROUND,
              listening, processed, encrypting, direct, winq, decrypting, tasks, port, promise, hist>>

\* OAuth2.webAuthFlow has answered and getAuthRes has read the answer.
AuthWindowAnswered ==
  /\ apiCall.stage = "authWindow"
  /\ apiCall' = [apiCall EXCEPT !.stage = "authRes", !.authRes = getAuthRes(apiCall.input),
                                !.tokenCalls = getAuthResSteps(apiCall.input).tokenCalls]
  /\ BusUnchanged

\* newAuthPopup returns to its caller.
newAuthPopupReturns ==
  /\ apiCall.stage = "authRes"
  /\ apiCall' = [apiCall EXCEPT !.stage = "returned",
                                !.returned = newAuthPopup(apiCall.input, apiCall.authRes)]
  /\ BusUnchanged

NoAuthRes == AuthRes("none", Undefined, Undefined, Undefined)

InitAuth ==
  /\ InitTransport
  /\ listening = {}
  /\ HANDLERS_REGISTERED_FRAME = NoHandlers
  /\ HANDLERS_REGISTERED_BACKGROUND = NoHandlers
  /\ \E i \in AuthInputs :
       apiCall = [stage |-> "authWindow", input |-> i, authRes |-> NoAuthRes, returned |-> NoAuthRes,
                  tokenCalls |-> 0]

NextAuth == AuthWindowAnswered \/ newAuthPopupReturns

SpecAuth == InitAuth /\ [][NextAuth]_vars

\* C20: every value newAuthPopup returns either has result 'Success' with a
\* non-empty acctEmail, a non-empty id_token and no error, or has another
\* result with id_token undefined and a defined, non-empty error string.
C20_DiscriminatedResult ==
  apiCall.stage = "returned" =>
    LET r == apiCall.returned
    IN  \/ /\ r.result = "Success"
           /\ ~Falsy(r.acctEmail)
           /\ ~Falsy(r.id_token)
           /\ r.error = Undefined
        \/ /\ r.result \in {"Denied", "Error"}
           /\ r.id_token = Undefined
           /\ ~Falsy(r.error)

\* A grant that getAuthRes accepted with an empty id_token has been turned
\* into an error by newAuthPopup.
C20_Witness ==
  /\ apiCall.stage = "returned"
  /\ apiCall.authRes.result = "Success"
  /\ Falsy(apiCall.authRes.id_token)
  /\ apiCall.returned.result = "Error"

\* C37: getAuthRes answers 'Success' only when the auth window returned a url
\* and no error, every checked scope that was requested is among the granted
\* ones, an auth code is present, the received state is the expected one, and
\* the id_token gives an email; and with a state that does not match, the
\* token endpoint has not been called.
C37_SuccessOnlyAfterChecks ==
  apiCall.stage \in {"authRes", "returned"} =>
    LET i == apiCall.input
    IN  /\ apiCall.authRes.result = "Success"
             => /\ ~Falsy(i.url)
                /\ Falsy(i.error)
                /\ i.scope # Missing
                /\ \A sc \in CheckedScopes : sc \in i.scopes => sc \in i.scope[1]
                /\ i.code # Missing /\ ~Falsy(i.code[1])
                /\ i.state = <<ExpectedState>>
                /\ i.tokens \notin {"throws"}
                /\ i.email \notin {"throws", ""}
                /\ apiCall.authRes.acctEmail = i.email
                /\ apiCall.tokenCalls = 1
        /\ i.state # <<ExpectedState>>
             => apiCall.tokenCalls = 0 /\ apiCall.authRes.result # "Success"

\* A forged state with everything else in order: refused, no token request.
C37_Witness ==
  /\ apiCall.stage = "authRes"
  /\ ~Falsy(apiCall.input.url) /\ Falsy(apiCall.input.error)
  /\ apiCall.input.scopes = CheckedScopes
  /\ apiCall.input.scope = <<CheckedScopes>>
  /\ apiCall.input.code = <<"4/code">>
  /\ apiCall.input.state = <<"forged">>
  /\ apiCall.input.tokens = "idtoken" /\ apiCall.input.email = "user@example.com"
  /\ apiCall.authRes.result = "Error"
  /\ apiCall.authRes.error = "Wrong oauth CSRF token. Please try again."
  /\ apiCall.tokenCalls = 0

\* A grant that passed every check.
C37_WitnessSuccess ==
  /\ apiCall.stage = "authRes"
  /\ apiCall.input.scopes = CheckedScopes
  /\ apiCall.authRes.result = "Success"
  /\ apiCall.tokenCalls = 1

\* ------------------------------------------- GoogleOAuth: calls with a retry
\* What a call of apiGoogleCallRetryAuthErrorOneTime meets: the account, what
\* the stores hold, how the token endpoint answers a refresh, what remains in
\* the in-memory store after the save, and how the API answers each attempt.
AjaxOutcomes == {"ok", "authErr", "otherErr"}

RetryInputs ==
  [acctEmail : {"", "user@example.com"},
   google_token_refresh : {Undefined, "1//refresh"},
   cached : {Undefined, "cached"},
   refresh : {"throws", "", "fresh"},
   save : {"throws", "expired", "kept"},
   first : AjaxOutcomes,
   second : AjaxOutcomes]

Bearer(token) == <<"Bearer", token>>

AuthErr == [name |-> "AjaxErr", status |-> 401]
OtherErr == [name |-> "AjaxErr", status |-> 500]
MissingEmailErr == [name |-> "Error: missing account_email in api_gmail_call", status |-> 0]
NotConnectedErr == [name |-> "GoogleAuthErr: not connected", status |-> 0]
NotRefreshedErr == [name |-> "GoogleAuthErr: Could not refresh google auth token", status |-> 0]
IdTokenErr == [name |-> "Error: id_token", status |-> 0]
ResponseData == [name |-> "data", status |-> 200]
NoOutcome == [threw |-> FALSE, v |-> [name |-> "none", status |-> 0]]

\* ApiErr.isAuthErr
isAuthErr(e) == e \in {AuthErr}

\* Api.ajax(req) as the caller sees it
ajaxOutcome(o) ==
  IF o = "ok" THEN Returned(ResponseData)
  ELSE IF o = "authErr" THEN Threw(AuthErr)
  ELSE Threw(OtherErr)

\* googleAuthRefreshToken: one request to the token endpoint
googleAuthRefreshToken(i) ==
  IF i.refresh = "throws" THEN Threw(OtherErr) ELSE Returned(i.refresh)

\* googleAuthSaveTokens: the access token that InMemoryStore holds afterwards
googleAuthSaveTokens(i, access_token) ==
  IF i.save = "throws" THEN Threw(IdTokenErr)
  ELSE IF i.save = "expired" THEN Returned(Undefined)
  ELSE Returned(access_token)

HeaderRes(res, mem, refreshed) == [res |-> res, mem |-> mem, refreshed |-> refreshed]

\* googleApiAuthHeader reading the cache whatever forceRefresh says
googleApiAuthHeaderCacheFirst(i, mem, forceRefresh) ==
  IF Falsy(mem)
  THEN HeaderRes(Threw(NotRefreshedErr), mem, FALSE)
  ELSE HeaderRes(Returned(Bearer(mem)), mem, FALSE)

\* googleApiAuthHeader(acctEmail, forceRefresh), with mem the access token of
\* InMemoryStore: the header or the error, the store afterwards, and whether
\* the token endpoint was asked.
googleApiAuthHeader(i, mem, forceRefresh) ==
  IF Falsy(i.acctEmail)
  THEN HeaderRes(Threw(MissingEmailErr), mem, FALSE)
  ELSE IF Falsy(i.google_token_refresh)
  THEN HeaderRes(Threw(NotConnectedErr), mem, FALSE)
  ELSE IF ~forceRefresh /\ ~Falsy(mem)
  THEN HeaderRes(Returned(Bearer(mem)), mem, FALSE)
  ELSE LET refreshTokenRes == googleAuthRefreshToken(i)
           saved == googleAuthSaveTokens(i, refreshTokenRes.v)
       IN  IF refreshTokenRes.threw THEN HeaderRes(refreshTokenRes, mem, TRUE)
           ELSE IF Falsy(refreshTokenRes.v)
           THEN HeaderRes(Threw(NotRefreshedErr), mem, TRUE)
           ELSE IF saved.threw THEN HeaderRes(saved, mem, TRUE)
           ELSE IF Falsy(saved.v)
           THEN HeaderRes(Threw(NotRefreshedErr), saved.v, TRUE)
           ELSE HeaderRes(Returned(Bearer(saved.v)), saved.v, TRUE)

\* The header call is logged with its arguments and what it did.
LogHeader(forceRefresh, h) ==
  Append(apiCall.headers, [forceRefresh |-> forceRefresh, before |-> apiCall.mem,
                           res |-> h.res, refreshed |-> h.refreshed,
                           attempts |-> Len(apiCall.attempts)])

\* The caller composes the request: authorization from googleApiAuthHeader(acctEmail).
composeRequest ==
  /\ apiCall.stage = "compose"
  /\ LET h == googleApiAuthHeader(apiCall.input, apiCall.mem, FALSE)
     IN  apiCall' = [apiCall EXCEPT !.stage = IF h.res.threw THEN "done" ELSE "first",
                                    !.mem = h.mem,
                                    !.headers = LogHeader(FALSE, h),
                                    !.authorization = IF h.res.threw THEN Undefined ELSE h.res.v,
                                    !.outcome = IF h.res.threw THEN h.res ELSE @]
  /\ BusUnchanged

\* try { return await Api.ajax(req) }
firstAttempt ==
  /\ apiCall.stage = "first"
  /\ LET r == ajaxOutcome(apiCall.input.first)
     IN  apiCall' = [apiCall EXCEPT !.stage = IF r.threw THEN "caught" ELSE "done",
                                    !.attempts = Append(@, apiCall.authorization),
                                    !.firstAttemptErr = IF r.threw THEN r.v ELSE @,
                                    !.outcome = IF r.threw THEN @ ELSE r]
  /\ BusUnchanged

\* catch (firstAttemptErr): an auth error goes on to the retry, any other is rethrown
firstAttemptCaught ==
  /\ apiCall.stage = "caught"
  /\ apiCall' = IF isAuthErr(apiCall.firstAttemptErr)
                THEN [apiCall EXCEPT !.stage = "refresh"]
                ELSE [apiCall EXCEPT !.stage = "done", !.outcome = Threw(apiCall.firstAttemptErr)]
  /\ BusUnchanged

\* authorization: await GoogleOAuth.googleApiAuthHeader(acctEmail, true)
forceRefreshToken ==
  /\ apiCall.stage = "refresh"
  /\ LET h == googleApiAuthHeader(apiCall.input, apiCall.mem, TRUE)
     IN  apiCall' = [apiCall EXCEPT !.stage = IF h.res.threw THEN "done" ELSE "second",
                                    !.mem = h.mem,
                                    !.headers = LogHeader(TRUE, h),
                                    !.authorization = IF h.res.threw THEN @ ELSE h.res.v,
                                    !.outcome = IF h.res.threw THEN h.res ELSE @]
  /\ BusUnchanged

\* return await Api.ajax({ ...req, headers: { ..., authorization } })
secondAttempt ==
  /\ apiCall.stage = "second"
  /\ apiCall' = [apiCall EXCEPT !.stage = "done",
                                !.attempts = Append(@, apiCall.authorization),
                                !.outcome = ajaxOutcome(apiCall.input.second)]
  /\ BusUnchanged

InitRetry ==
  /\ InitTransport
  /\ listening = {}
  /\ HANDLERS_REGISTERED_FRAME = NoHandlers
  /\ HANDLERS_REGISTERED_BACKGROUND = NoHandlers
  /\ \E i \in RetryInputs :
       apiCall = [stage |-> "compose", input |-> i, mem |-> i.cached, headers |-> <<>>,
                  authorization |-> Undefined, attempts |-> <<>>,
                  firstAttemptErr |-> Undefined, outcome |-> NoOutcome]

NextRetry ==
  composeRequest \/ firstAttempt \/ firstAttemptCaught \/ forceRefreshToken \/ secondAttempt

SpecRetry == InitRetry /\ [][NextRetry]_vars

\* C38: a call makes at most two attempts; a second attempt follows only an
\* auth error of the first and a forced header call that asked the token
\* endpoint after the first attempt, and carries the header that call returned;
\* a forced header call never returns a token without asking the token
\* endpoint; a first error that is not an auth error, and any error of the
\* second attempt, is what the caller gets, with no further attempt.
C38_RetryAtMostOnce ==
  apiCall.stage \in {"first", "caught", "refresh", "second", "done"} =>
    /\ Len(apiCall.attempts) <= 2
    /\ \A k \in 1 .. Len(apiCall.headers) :
         LET h == apiCall.headers[k]
         IN  h.forceRefresh /\ ~h.res.threw
               => h.refreshed /\ h.res.v = Bearer("fresh")
    /\ Len(apiCall.attempts) = 2
         => /\ isAuthErr(apiCall.firstAttemptErr)
            /\ apiCall.input.first = "authErr"
            /\ \E k \in 1 .. Len(apiCall.headers) :
                 /\ apiCall.headers[k].forceRefresh
                 /\ apiCall.headers[k].refreshed
                 /\ apiCall.headers[k].attempts = 1
                 /\ ~apiCall.headers[k].res.threw
                 /\ apiCall.attempts[2] = apiCall.headers[k].res.v
    /\ apiCall.stage = "done"
         => /\ apiCall.input.first = "otherErr" /\ Len(apiCall.attempts) >= 1
                 => Len(apiCall.attempts) = 1 /\ apiCall.outcome = Threw(OtherErr)
            /\ Len(apiCall.attempts) = 2 /\ apiCall.input.second # "ok"
                 => apiCall.outcome = ajaxOutcome(apiCall.input.second) /\ apiCall.outcome.threw
            /\ Len(apiCall.attempts) = 1 /\ apiCall.input.first = "ok"
                 => apiCall.outcome = Returned(ResponseData)

\* The first attempt sent the cached token and met an auth error, the forced
\* refresh fetched a new token, and the second attempt with it failed again.
C38_Witness ==
  /\ apiCall.stage = "done"
  /\ apiCall.attempts = <<Bearer("cached"), Bearer("fresh")>>
  /\ apiCall.input.second = "authErr"
  /\ apiCall.outcome = Threw(AuthErr)

\* A first error that is not an auth error reached the caller after one attempt.
C38_WitnessOtherErr ==
  /\ apiCall.stage = "done"
  /\ Len(apiCall.attempts) = 1
  /\ apiCall.outcome = Threw(OtherErr)

\* ------------------------------------------------------------------- Api
\* A url is a sequence of characters: a letter, a dot or a slash.
MaxUrlLen == 4
UrlChars == {"a", ".", "/"}
Urls == UNION {[1 .. n -> UrlChars] : n \in 0 .. MaxUrlLen}

\* String.prototype.includes
Includes(str, sub) ==
  \E k \in 0 .. Len(str) - Len(sub) : \A j \in 1 .. Len(sub) : str[k + j] = sub[j]

\* a check that looks for '../' only
throwIfApiPathTraversalAttemptedDotsSlash(requestUrl) ==
  Includes(requestUrl, <<".", ".", "/">>)

\* Api.throwIfApiPathTraversalAttempted: TRUE when it throws
throwIfApiPathTraversalAttempted(requestUrl) ==
  Includes(requestUrl, <<".", ".", "/">>) \/ Includes(requestUrl, <<"/", ".", ".">>)

TraversalErr == [name |-> "Error: API path traversal forbidden", status |-> 0]

\* Env.isContentScript: the script injected in the webmail page
isContentScript(c) == c \in Frames /\ Origin[c] = MailOrigin

AjaxName == "ajax"

ApiInputs ==
  [ctx : {"top", "S", Bg},
   fn : {"ajax", "download"},
   url : Urls,
   net : {"ok", "fails"}]

\* Api.ajax in a content script: BrowserMsg.send.bg.await.ajax({ req, stack })
ajaxThroughBackground ==
  /\ apiCall.stage = "call"
  /\ apiCall.input.fn = "ajax"
  /\ isContentScript(apiCall.input.ctx)
  /\ msgs = <<>>
  /\ sendAwait(apiCall.input.ctx, Undefined, AjaxName, PlainBm, TRUE)

\* Api.ajax in any other context, up to $.ajax(...)
ajax ==
  /\ apiCall.stage = "call"
  /\ apiCall.input.fn = "ajax"
  /\ ~isContentScript(apiCall.input.ctx)
  /\ apiCall' = IF throwIfApiPathTraversalAttempted(apiCall.input.url)
                THEN [apiCall EXCEPT !.stage = "done", !.outcome = Threw(TraversalErr)]
                ELSE [apiCall EXCEPT !.stage = "request", !.requests = @ + 1]
  /\ BusUnchanged

\* Api.download, up to request.send()
download ==
  /\ apiCall.stage = "call"
  /\ apiCall.input.fn = "download"
  /\ apiCall' = IF throwIfApiPathTraversalAttempted(apiCall.input.url)
                THEN [apiCall EXCEPT !.stage = "done", !.outcome = Threw(TraversalErr)]
                ELSE [apiCall EXCEPT !.stage = "request", !.requests = @ + 1]
  /\ BusUnchanged

\* the request settles: resolve(data) / resolve(new Buf(...)), or the AjaxErr
requestSettles ==
  /\ apiCall.stage = "request"
  /\ apiCall' = [apiCall EXCEPT !.stage = "done",
                                !.outcome = IF apiCall.input.net = "ok"
                                            THEN Returned(ResponseData) ELSE Threw(OtherErr)]
  /\ BusUnchanged

InitApi ==
  /\ InitTransport
  /\ listening = {"top", Bg}
  /\ HANDLERS_REGISTERED_FRAME = NoHandlers
  /\ \E h \in {"respondObj", "throwErr"} :
       HANDLERS_REGISTERED_BACKGROUND = [n \in Names \cup {AjaxName} |->
                                           IF n = AjaxName THEN h ELSE Undefined]
  /\ \E i \in ApiInputs :
       apiCall = [stage |-> "call", input |-> i, requests |-> 0, outcome |-> NoOutcome]

NextApi ==
  \/ ajaxThroughBackground
  \/ ajax
  \/ download
  \/ requestSettles
  \/ \E uid \in 1 .. Len(msgs) : bgListen(uid)
  \/ \E t \in DOMAIN tasks : sendRawResponse(t)
  \/ \E uid \in 1 .. Len(msgs) : ReplyArrives(uid)

SpecApi == InitApi /\ [][NextApi]_vars

ViaBus == apiCall.input.fn = "ajax" /\ apiCall.input.ctx = "top"

HasTraversal(url) ==
  \E k \in 1 .. Len(url) - 2 :
    \/ url[k] = "." /\ url[k + 1] = "." /\ url[k + 2] = "/"
    \/ url[k] = "/" /\ url[k + 1] = "." /\ url[k + 2] = "."

\* C39: Api.ajax in the content script issues no request of its own and
\* sends at most one envelope, named 'ajax', awaited, addressed to nobody but
\* the background page, whose handler runs at most once for it; Api.ajax in
\* any other context, and Api.download, with '../' or '/..' in the url issue
\* no request and send nothing, and once finished have thrown the error.
C39_ViaBusAndNoTraversal ==
  apiCall.stage # "none" =>
    /\ ViaBus
         => /\ apiCall.requests = 0
            /\ apiCall.stage = "call"
            /\ Len(msgs) <= 1
            /\ \A u \in 1 .. Len(msgs) :
                 /\ msgs[u].name = AjaxName
                 /\ msgs[u].awaitRes
                 /\ msgs[u].to = Null
                 /\ msgs[u].sender = apiCall.input.ctx
                 /\ u \notin encrypting
                 /\ \A f \in Frames : hist.invoked[f][u] = 0
                 /\ hist.invoked[Bg][u] <= 1
                 /\ promise[u].state # "none"
    /\ ~ViaBus
         => /\ msgs = <<>>
            /\ HasTraversal(apiCall.input.url)
                 => /\ apiCall.requests = 0
                    /\ apiCall.stage \in {"call", "done"}
                    /\ apiCall.stage = "done" => apiCall.outcome = Threw(TraversalErr)
            /\ ~HasTraversal(apiCall.input.url)
                 => /\ apiCall.requests <= 1
                    /\ apiCall.stage = "done" => apiCall.requests = 1

\* Api.ajax of the content script has been answered by the background page.
C39_Witness ==
  /\ ViaBus
  /\ Len(msgs) = 1
  /\ hist.invoked[Bg][1] = 1
  /\ promise[1].state = "resolved"
  /\ apiCall.requests = 0

\* Api.download of an extension frame with '/..' at the end of the url has
\* thrown without a request.
C39_WitnessTraversal ==
  /\ apiCall.stage = "done"
  /\ apiCall.input.fn = "download"
  /\ apiCall.input.ctx = "S"
  /\ apiCall.input.url = <<"a", "/", ".", ".">>
  /\ apiCall.requests = 0
  /\ apiCall.outcome = Threw(TraversalErr)

====
